---- MODULE Spec2Model ----
(***************************************************************************)
(* Verification model of the chess-ai repository: the three game-tree      *)
(* searches (Minimax, Alpha-Beta, Expectimax), the agent contract, the     *)
(* shared game runner and the reinforcement-learning agents.               *)
(*                                                                         *)
(* The rules engine (python-chess) is an external boundary.  It is         *)
(* modelled by a small chess-like game with the same interface: a board    *)
(* with push/pop of one move, a legal-move generator for the side to move, *)
(* captures that remove material for good, checkmate, stalemate and        *)
(* insufficient material, and a FEN that carries the move counters.        *)
(***************************************************************************)
EXTENDS Integers, Sequences, FiniteSets, TLC

VARIABLES
    hasTranspositionKey, \* hasattr(board, "transposition_key") of the installed rules engine
    pst,                 \* the evaluator's positional table (the evaluator is a parameter of the search)
    board,               \* the position object the caller owns
    depth,               \* the configured search depth
    res,                 \* per algorithm: the outcome of its last search on `board`
    agent,               \* the agent object under call
    trainBoard,          \* the local board of QLearningAgent.train(), NoBoard outside a training game
    trainLeft,           \* iterations of train()'s episode loop still to run
    last,                \* the last call made on `agent` and how it ended
    white_agent,         \* play_game's first argument
    black_agent,         \* play_game's second argument
    game,                \* play_game's position in its code, its result, and the hook calls it made
    vi,                  \* a runValueIteration call in progress: the parent's agent, the pool's tasks
    pz,                  \* the puzzle tools: the CSV file, the last call made on it and its outcome
    elo,                 \* the Elo tournament script: the ratings table and the games played
    gui                  \* the chess window: its widgets' state, the worker thread, the event queue

vars == <<hasTranspositionKey, pst, board, depth, res, agent, trainBoard, trainLeft, last,
          white_agent, black_agent, game, vi, pz, elo, gui>>
otherVars == <<vi, pz, elo, gui>>
agentVars == <<agent, trainBoard, trainLeft, last>>
gameVars == <<white_agent, black_agent, game>>

----------------------------------------------------------------------------
(* Bounds of the model *)

MaxDepth == 4          \* configured depths 0..MaxDepth
MaxGamePlies == 2      \* plies the caller plays before searching
PstMax == 1            \* positional terms range over -PstMax*10 .. PstMax*10
RecursionLimit == 7    \* sys.getrecursionlimit(), scaled to the model's trees
MaxDiscovered == 1     \* positions the 1% coin registers in one computeActionFromValues
MaxTraining == 1       \* numTraining ranges over 0..MaxTraining
MaxEpisodePlies == 4   \* plies of a training game the model follows
MaxCalls == 3          \* calls made on one agent after its construction
MaxGameLen == 4        \* plies of one play_game the model follows before the clock runs out
MaxIterations == 2     \* self.iterations of a value-iteration agent ranges over 1..MaxIterations
MaxUses == 1           \* choose_move calls a caller makes on a value-iteration agent
MaxReruns == 1         \* runValueIteration calls a caller makes on a value-iteration agent
MaxRegistered == 1     \* positions the 1% coin registers in the workers of one sweep
MaxRows == 2           \* rows of the CSV file the puzzle tools read
MaxGamesPerPair == 2   \* games every pair of the tournament plays
MaxQueued == 2         \* callbacks waiting in the UI thread's queue
MaxGuiPlies == 2       \* plies played in the window
MaxPly == 4            \* ply_from_root handed to evaluate
MaxElapsed == 1        \* clock ticks a select_move call can measure
MaxUiEvents == 2       \* times the user types a move or presses a button

(* Program constants *)

WHITE == TRUE          \* chess.WHITE
BLACK == FALSE         \* chess.BLACK
Inf == 100000000       \* float('inf'): above every score the model can produce
MateScore == 20000
ExScale == 6 * 6         \* Expectimax works in floats: fixed point with 1/ExScale resolution

Max(a, b) == IF a >= b THEN a ELSE b
Min(a, b) == IF a <= b THEN a ELSE b

----------------------------------------------------------------------------
(* The rules engine: placements, moves, push / pop, termination            *)

\* A placement: white king on rank 1 or 2, black king on rank 8 or 7, a
\* white rook and a black queen, each at home, advanced or captured.
Placements == [wk : {1, 2}, bk : {7, 8},
               wr : {"home", "adv", "gone"}, bq : {"home", "adv", "gone"}]

InitialPlacement == [wk |-> 1, bk |-> 8, wr |-> "home", bq |-> "home"]

\* chess.Board(): the initial position, White to move, counters 0 / 1, empty stack
NewBoard == [pl |-> InitialPlacement, turn |-> WHITE, halfmove |-> 0,
             fullmove |-> 1, stack |-> <<>>]

\* square numbers as the rules engine numbers them (a1 = 0 .. h8 = 63)
Sq == [e1 |-> 4, e2 |-> 12, e7 |-> 52, e8 |-> 60, a1 |-> 0, a5 |-> 32, d8 |-> 59]

Mv(u, f, t, a, v) == [uci |-> u, from |-> f, to |-> t, att |-> a, vic |-> v, promo |-> FALSE]

is_insufficient_material(b) == b.pl.wr = "gone" /\ b.pl.bq = "gone"

is_checkmate(b) ==
    \/ b.turn = BLACK /\ b.pl.wr = "adv" /\ b.pl.bq = "gone" /\ b.pl.bk = 8 /\ b.pl.wk = 2
    \/ b.turn = WHITE /\ b.pl.bq = "adv" /\ b.pl.wr = "gone" /\ b.pl.wk = 1 /\ b.pl.bk = 7

is_stalemate(b) ==
    \/ b.turn = BLACK /\ b.pl.wr = "adv" /\ b.pl.bq = "gone" /\ b.pl.bk = 8 /\ b.pl.wk = 1
    \/ b.turn = WHITE /\ b.pl.bq = "adv" /\ b.pl.wr = "gone" /\ b.pl.wk = 1 /\ b.pl.bk = 8

\* list(board.legal_moves): the moves of the side to move, in generation order
legal_moves(b) ==
    IF is_checkmate(b) \/ is_stalemate(b) THEN <<>>
    ELSE IF b.turn = WHITE THEN
        (IF b.pl.wk = 1 THEN <<Mv("e1e2", Sq.e1, Sq.e2, "K", "")>>
                        ELSE <<Mv("e2e1", Sq.e2, Sq.e1, "K", "")>>)
        \o (IF b.pl.wr = "home"
              THEN <<Mv("a1a5", Sq.a1, Sq.a5, "R", IF b.pl.bq = "adv" THEN "Q" ELSE "")>>
              ELSE <<>>)
        \o (IF b.pl.wk = 2 /\ b.pl.bq = "adv"
              THEN <<Mv("e2a5", Sq.e2, Sq.a5, "K", "Q")>>
              ELSE <<>>)
    ELSE
        (IF b.pl.bk = 8 THEN <<Mv("e8e7", Sq.e8, Sq.e7, "K", "")>>
                        ELSE <<Mv("e7e8", Sq.e7, Sq.e8, "K", "")>>)
        \o (IF b.pl.bq = "home"
              THEN <<Mv("d8a5", Sq.d8, Sq.a5, "Q", IF b.pl.wr = "adv" THEN "R" ELSE "")>>
              ELSE <<>>)
        \o (IF b.pl.bk = 7 /\ b.pl.wr = "adv"
              THEN <<Mv("e7a5", Sq.e7, Sq.a5, "K", "R")>>
              ELSE <<>>)

LegalSet(b) == {legal_moves(b)[i] : i \in 1..Len(legal_moves(b))}

is_capture(m) == m.vic # ""

is_game_over(b) == is_checkmate(b) \/ is_stalemate(b) \/ is_insufficient_material(b)

\* the placement after move m
Apply(pl, m) ==
    CASE m.uci = "e1e2" -> [pl EXCEPT !.wk = 2]
      [] m.uci = "e2e1" -> [pl EXCEPT !.wk = 1]
      [] m.uci = "e8e7" -> [pl EXCEPT !.bk = 7]
      [] m.uci = "e7e8" -> [pl EXCEPT !.bk = 8]
      [] m.uci = "a1a5" -> [pl EXCEPT !.wr = "adv", !.bq = IF m.vic = "Q" THEN "gone" ELSE @]
      [] m.uci = "d8a5" -> [pl EXCEPT !.bq = "adv", !.wr = IF m.vic = "R" THEN "gone" ELSE @]
      [] m.uci = "e7a5" -> [pl EXCEPT !.wr = "gone"]
      [] m.uci = "e2a5" -> [pl EXCEPT !.bq = "gone"]

\* board.push(move): saves the state, bumps the counters, plays the move, flips the turn
push(b, m) ==
    [pl |-> Apply(b.pl, m),
     turn |-> ~b.turn,
     halfmove |-> IF is_capture(m) THEN 0 ELSE b.halfmove + 1,
     fullmove |-> IF b.turn = BLACK THEN b.fullmove + 1 ELSE b.fullmove,
     stack |-> Append(b.stack, [move |-> m, pl |-> b.pl, turn |-> b.turn,
                                halfmove |-> b.halfmove, fullmove |-> b.fullmove])]

\* board.pop(): restores the state saved by the matching push
pop(b) ==
    LET top == b.stack[Len(b.stack)]
    IN [pl |-> top.pl, turn |-> top.turn, halfmove |-> top.halfmove,
        fullmove |-> top.fullmove, stack |-> SubSeq(b.stack, 1, Len(b.stack) - 1)]

\* board.fen(): placement, side to move and both move counters
fen(b) == <<b.pl, b.turn, b.halfmove, b.fullmove>>

\* board.transposition_key(): placement and side to move, no counters
transposition_key(b) == <<b.pl, b.turn>>

\* key = board.transposition_key() if hasattr(board, "transposition_key") else board.fen()
PathKey(b) == IF hasTranspositionKey THEN transposition_key(b) ELSE fen(b)

----------------------------------------------------------------------------
(* The evaluator *)

PieceValue(p) ==
    CASE p = "R" -> 500
      [] p = "Q" -> 900
      [] p = "K" -> 20000
      [] OTHER -> 0

\* material plus positional terms, White minus Black
StaticEval(b) ==
      (IF b.pl.wr = "gone" THEN 0 ELSE PieceValue("R") + (IF b.pl.wr = "adv" THEN pst.rook ELSE 0))
    - (IF b.pl.bq = "gone" THEN 0 ELSE PieceValue("Q") + (IF b.pl.bq = "adv" THEN pst.queen ELSE 0))
    + (IF b.pl.wk = 2 THEN pst.king ELSE 0)
    - (IF b.pl.bk = 7 THEN pst.king ELSE 0)

evaluate_without_ply(b, ply_from_root) ==
    IF is_stalemate(b) \/ is_insufficient_material(b) THEN 0
    ELSE IF is_checkmate(b)
         THEN (IF b.turn = WHITE THEN -MateScore ELSE MateScore)
         ELSE StaticEval(b)

evaluate(b, ply_from_root) ==
    IF is_stalemate(b) \/ is_insufficient_material(b) THEN 0
    ELSE IF is_checkmate(b)
         THEN (IF b.turn = WHITE THEN ply_from_root - MateScore ELSE MateScore - ply_from_root)
         ELSE StaticEval(b)

----------------------------------------------------------------------------
(* Move ordering: sorted(moves, key=score_move, reverse=True), a stable sort *)

RECURSIVE InsertSorted(_, _)
InsertSorted(sorted, e) ==
    IF sorted = <<>> THEN <<e>>
    ELSE IF Head(sorted).sc >= e.sc
         THEN <<Head(sorted)>> \o InsertSorted(Tail(sorted), e)
         ELSE <<e>> \o sorted

RECURSIVE SortByScore(_)
SortByScore(pairs) ==
    IF pairs = <<>> THEN <<>>
    ELSE InsertSorted(SortByScore(SubSeq(pairs, 1, Len(pairs) - 1)), pairs[Len(pairs)])

\* the capture reverses the move played last (same two squares, opposite direction)
ReversesLast(b, m) ==
    /\ Len(b.stack) > 0
    /\ m.from = b.stack[Len(b.stack)].move.to
    /\ m.to = b.stack[Len(b.stack)].move.from

MiniMax_score_move(b, m) ==
    IF is_capture(m)
    THEN 10 * PieceValue(m.vic) - PieceValue(m.att)
         - (IF ReversesLast(b, m) THEN 100 ELSE 0)
         - (IF m.att = "K" THEN 30 ELSE 0)
    ELSE IF m.promo THEN 900 ELSE 0

MiniMax_order_moves(b, moves) ==
    LET sorted == SortByScore([i \in 1..Len(moves) |->
                                 [m |-> moves[i], sc |-> MiniMax_score_move(b, moves[i])]])
    IN [i \in 1..Len(sorted) |-> sorted[i].m]

AlphaBeta_score_move(b, m) ==
    IF is_capture(m) THEN 10 * PieceValue(m.vic) - PieceValue(m.att)
    ELSE IF m.promo THEN 900 ELSE 0

AlphaBeta_order_moves(b, moves) ==
    LET sorted == SortByScore([i \in 1..Len(moves) |->
                                 [m |-> moves[i], sc |-> AlphaBeta_score_move(b, moves[i])]])
    IN [i \in 1..Len(sorted) |-> sorted[i].m]

Expectimax_score_move(b, m) ==
    IF is_capture(m)
    THEN 10 * PieceValue(m.vic) - PieceValue(m.att)
         - (IF ReversesLast(b, m) THEN 100 ELSE 0)
         - (IF m.att = "K" THEN 30 ELSE 0)
    ELSE IF m.promo THEN 900
    ELSE IF m.att = "K" THEN -10 ELSE 0

Expectimax_order_moves(b, moves) ==
    LET sorted == SortByScore([i \in 1..Len(moves) |->
                                 [m |-> moves[i], sc |-> Expectimax_score_move(b, moves[i])]])
    IN [i \in 1..Len(sorted) |-> sorted[i].m]

Captures(b) == SelectSeq(legal_moves(b), is_capture)

----------------------------------------------------------------------------
(* The searches.  A search threads one record through its recursion:       *)
(*   board   the position object, pushed and popped in place               *)
(*   nodes   self.nodes_searched                                           *)
(*   path    path_keys                                                     *)
(*   raised  a RecursionError is propagating (no handler catches it)       *)
(*   mainPly the deepest ply_from_root at which the main recursion ran     *)
(*   anc     the keys of the nodes from the root to the node at hand       *)
(*   repeated  a node whose key is in anc went on past its first test      *)
(*   sense   every optimizing node so far maximized exactly when White     *)
(*           was to move on its board                                      *)
(* and every recursive routine returns [val, s].                           *)

NoMove == [uci |-> "None"]   \* best_move = None

Start(b, keys) == [board |-> b, nodes |-> 0, path |-> keys, raised |-> FALSE, mainPly |-> 0,
                   anc |-> {PathKey(b)}, repeated |-> FALSE, sense |-> TRUE]

\* what an optimizing node that maximizes iff `maximizing` adds to s.sense
Sense(s, maximizing) == s.sense /\ (maximizing <=> s.board.turn = WHITE)

\* the node at hand enters s.anc; Left(r, s0) takes it out again when the node returns
Entered(s) == [s EXCEPT !.repeated = @ \/ PathKey(s.board) \in s.anc,
                        !.anc = @ \cup {PathKey(s.board)}]
Left(r, s0) == [r EXCEPT !.s.anc = s0.anc]

Raise(s) == [val |-> 0, s |-> [s EXCEPT !.raised = TRUE]]

RECURSIVE MiniMax_minimax(_, _, _, _)
RECURSIVE MiniMax_minimax_loop(_, _, _, _, _, _, _)
RECURSIVE MiniMax_quiescence(_, _, _, _, _)
RECURSIVE MiniMax_quiescence_loop(_, _, _, _, _, _, _)

\* the two capture loops of MiniMaxSearch._quiescence
MiniMax_quiescence_loop(s, moves, i, alpha, beta, maximizing, ply) ==
    IF i > Len(moves) THEN [val |-> IF maximizing THEN alpha ELSE beta, s |-> s]
    ELSE
      LET pushed == push(s.board, moves[i])
          child_key == PathKey(pushed)
          seen == child_key \in s.path
          Step(r) ==
             IF r.s.raised THEN r
             ELSE
               LET s2 == [r.s EXCEPT !.board = pop(@),
                                     !.path = IF seen THEN @ ELSE @ \ {child_key}]
                   score == r.val
               IN IF maximizing
                  THEN IF score >= beta THEN [val |-> beta, s |-> s2]
                       ELSE MiniMax_quiescence_loop(s2, moves, i + 1,
                                IF score > alpha THEN score ELSE alpha, beta, maximizing, ply)
                  ELSE IF score <= alpha THEN [val |-> alpha, s |-> s2]
                       ELSE MiniMax_quiescence_loop(s2, moves, i + 1,
                                alpha, IF score < beta THEN score ELSE beta, maximizing, ply)
      IN Step(IF seen THEN [val |-> 0, s |-> [s EXCEPT !.board = pushed]]
              ELSE MiniMax_quiescence([s EXCEPT !.board = pushed, !.path = @ \cup {child_key}],
                                      alpha, beta, ~maximizing, ply + 1))

MiniMax_quiescence(s0, alpha, beta, maximizing, ply) ==
    IF ply > RecursionLimit THEN Raise(s0)
    ELSE
      LET s == [s0 EXCEPT !.nodes = @ + 1, !.sense = Sense(s0, maximizing)]
          stand_pat == evaluate(s.board, ply)
      IN IF maximizing /\ stand_pat >= beta THEN [val |-> beta, s |-> s]
         ELSE IF ~maximizing /\ stand_pat <= alpha THEN [val |-> alpha, s |-> s]
         ELSE MiniMax_quiescence_loop(s, MiniMax_order_moves(s.board, Captures(s.board)), 1,
                  IF maximizing /\ stand_pat > alpha THEN stand_pat ELSE alpha,
                  IF ~maximizing /\ stand_pat < beta THEN stand_pat ELSE beta,
                  maximizing, ply)

\* the two move loops of MiniMaxSearch._minimax; best is max_eval / min_eval
MiniMax_minimax_loop(s, moves, i, d, maximizing, ply, best) ==
    IF i > Len(moves) THEN [val |-> best, s |-> s]
    ELSE
      LET Step(r) ==
             IF r.s.raised THEN r
             ELSE MiniMax_minimax_loop([r.s EXCEPT !.board = pop(@)], moves, i + 1, d, maximizing, ply,
                                       IF maximizing THEN Max(best, r.val) ELSE Min(best, r.val))
      IN Step(MiniMax_minimax([s EXCEPT !.board = push(@, moves[i])], d - 1, ~maximizing, ply + 1))

MiniMax_minimax(s0, d, maximizing, ply) ==
    IF ply > RecursionLimit THEN Raise(s0)
    ELSE
      LET s == [s0 EXCEPT !.nodes = @ + 1, !.mainPly = Max(@, ply)]
          key == PathKey(s.board)
      IN IF key \in s.path THEN [val |-> 0, s |-> s]
         ELSE
           LET s1 == [s EXCEPT !.path = @ \cup {key}]
               Step(r) ==
                  [val |-> r.val, s |-> [r.s EXCEPT !.path = @ \ {key}]]   \* finally: path_keys.remove(key)
           IN Step(IF is_game_over(s1.board) THEN [val |-> evaluate(s1.board, ply), s |-> s1]
                   ELSE IF d = 0 THEN MiniMax_quiescence(s1, -Inf, Inf, maximizing, ply)
                   ELSE MiniMax_minimax_loop([s1 EXCEPT !.sense = Sense(s1, maximizing)],
                   MiniMax_order_moves(s1.board, legal_moves(s1.board)),
                   1, d, maximizing, ply,
                   IF maximizing THEN -Inf ELSE Inf))

RECURSIVE MiniMax_search_loop(_, _, _, _, _, _)
\* the root loop of MiniMaxSearch.search
MiniMax_search_loop(s, moves, i, d, best_move, best_value) ==
    IF i > Len(moves) THEN [move |-> best_move, score |-> best_value, s |-> s]
    ELSE
      LET pushed == push(s.board, moves[i])
          Step(r) ==
             IF r.s.raised THEN [move |-> NoMove, score |-> 0, s |-> r.s]
             ELSE
               LET s2 == [r.s EXCEPT !.board = pop(@)]
                   better == IF s2.board.turn = WHITE THEN r.val > best_value ELSE r.val < best_value
               IN MiniMax_search_loop(s2, moves, i + 1, d,
                                      IF better THEN moves[i] ELSE best_move,
                                      IF better THEN r.val ELSE best_value)
      IN Step(MiniMax_minimax([s EXCEPT !.board = pushed], d - 1, pushed.turn = WHITE, 1))

MiniMaxSearch_search(b, d) ==
    MiniMax_search_loop(Start(b, {PathKey(b)}), MiniMax_order_moves(b, legal_moves(b)), 1, d,
                        NoMove, IF b.turn = WHITE THEN -Inf ELSE Inf)

RECURSIVE AlphaBeta_alpha_beta(_, _, _, _, _, _)
RECURSIVE AlphaBeta_alpha_beta_loop(_, _, _, _, _, _, _, _, _)
RECURSIVE AlphaBeta_quiescence(_, _, _, _, _)
RECURSIVE AlphaBeta_quiescence_loop(_, _, _, _, _, _, _)

\* AlphaBetaSearch._quiescence's capture loop with the cutoff returns taken before
\* board.pop(): the fault the position-restoring property must catch
AlphaBeta_quiescence_loop_return_before_pop(s, moves, i, alpha, beta, maximizing, ply) ==
    IF i > Len(moves) THEN [val |-> IF maximizing THEN alpha ELSE beta, s |-> s]
    ELSE
      LET Step(r) ==
             IF r.s.raised THEN r
             ELSE
               LET s2 == [r.s EXCEPT !.board = pop(@)]
                   score == r.val
               IN IF maximizing
                  THEN IF score >= beta THEN [val |-> beta, s |-> r.s]
                       ELSE AlphaBeta_quiescence_loop(s2, moves, i + 1,
                                IF score > alpha THEN score ELSE alpha, beta, maximizing, ply)
                  ELSE IF score <= alpha THEN [val |-> alpha, s |-> r.s]
                       ELSE AlphaBeta_quiescence_loop(s2, moves, i + 1,
                                alpha, IF score < beta THEN score ELSE beta, maximizing, ply)
      IN Step(AlphaBeta_quiescence([s EXCEPT !.board = push(@, moves[i])],
              alpha, beta, ~maximizing, ply + 1))

\* the two capture loops of AlphaBetaSearch._quiescence (no path set)
AlphaBeta_quiescence_loop(s, moves, i, alpha, beta, maximizing, ply) ==
    IF i > Len(moves) THEN [val |-> IF maximizing THEN alpha ELSE beta, s |-> s]
    ELSE
      LET Step(r) ==
             IF r.s.raised THEN r
             ELSE
               LET s2 == [r.s EXCEPT !.board = pop(@)]
                   score == r.val
               IN IF maximizing
                  THEN IF score >= beta THEN [val |-> beta, s |-> s2]
                       ELSE AlphaBeta_quiescence_loop(s2, moves, i + 1,
                                IF score > alpha THEN score ELSE alpha, beta, maximizing, ply)
                  ELSE IF score <= alpha THEN [val |-> alpha, s |-> s2]
                       ELSE AlphaBeta_quiescence_loop(s2, moves, i + 1,
                                alpha, IF score < beta THEN score ELSE beta, maximizing, ply)
      IN Step(Left(AlphaBeta_quiescence(Entered([s EXCEPT !.board = push(@, moves[i])]),
                                        alpha, beta, ~maximizing, ply + 1), s))

AlphaBeta_quiescence(s0, alpha, beta, maximizing, ply) ==
    IF ply > RecursionLimit THEN Raise(s0)
    ELSE
      LET s == [s0 EXCEPT !.nodes = @ + 1, !.sense = Sense(s0, maximizing)]
          stand_pat == evaluate(s.board, ply)
      IN IF maximizing /\ stand_pat >= beta THEN [val |-> beta, s |-> s]
         ELSE IF ~maximizing /\ stand_pat <= alpha THEN [val |-> alpha, s |-> s]
         ELSE AlphaBeta_quiescence_loop(s, AlphaBeta_order_moves(s.board, Captures(s.board)), 1,
                  IF maximizing /\ stand_pat > alpha THEN stand_pat ELSE alpha,
                  IF ~maximizing /\ stand_pat < beta THEN stand_pat ELSE beta,
                  maximizing, ply)

\* the two move loops of AlphaBetaSearch._alpha_beta; best is max_eval / min_eval
AlphaBeta_alpha_beta_loop(s, moves, i, d, alpha, beta, maximizing, ply, best) ==
    IF i > Len(moves) THEN [val |-> best, s |-> s]
    ELSE
      LET Step(r) ==
             IF r.s.raised THEN r
             ELSE
               LET s2 == [r.s EXCEPT !.board = pop(@)]
                   best2 == IF maximizing THEN Max(best, r.val) ELSE Min(best, r.val)
                   alpha2 == IF maximizing THEN Max(alpha, r.val) ELSE alpha
                   beta2 == IF maximizing THEN beta ELSE Min(beta, r.val)
               IN IF beta2 <= alpha2 THEN [val |-> best2, s |-> s2]   \* break
                  ELSE AlphaBeta_alpha_beta_loop(s2, moves, i + 1, d, alpha2, beta2, maximizing, ply, best2)
      IN Step(AlphaBeta_alpha_beta([s EXCEPT !.board = push(@, moves[i])],
              d - 1, alpha, beta, ~maximizing, ply + 1))

AlphaBeta_alpha_beta(s0, d, alpha, beta, maximizing, ply) ==
    IF ply > RecursionLimit THEN Raise(s0)
    ELSE
      LET s == Entered([s0 EXCEPT !.nodes = @ + 1, !.mainPly = Max(@, ply)])
      IN Left(IF is_game_over(s.board) THEN [val |-> evaluate(s.board, ply), s |-> s]
              ELSE IF d = 0 THEN AlphaBeta_quiescence(s, alpha, beta, maximizing, ply)
              ELSE AlphaBeta_alpha_beta_loop([s EXCEPT !.sense = Sense(s, maximizing)],
                                             AlphaBeta_order_moves(s.board, legal_moves(s.board)),
                                             1, d, alpha, beta, maximizing, ply,
                                             IF maximizing THEN -Inf ELSE Inf),
              s0)

RECURSIVE AlphaBeta_search_loop(_, _, _, _, _, _, _, _)
\* the root loop of AlphaBetaSearch.search
AlphaBeta_search_loop(s, moves, i, d, alpha, beta, best_move, best_value) ==
    IF i > Len(moves) THEN [move |-> best_move, score |-> best_value, s |-> s]
    ELSE
      LET pushed == push(s.board, moves[i])
          Step(r) ==
             IF r.s.raised THEN [move |-> NoMove, score |-> 0, s |-> r.s]
             ELSE
               LET s2 == [r.s EXCEPT !.board = pop(@)]
                   white == s2.board.turn = WHITE
                   better == IF white THEN r.val > best_value ELSE r.val < best_value
               IN AlphaBeta_search_loop(s2, moves, i + 1, d,
                                        IF white THEN Max(alpha, r.val) ELSE alpha,
                                        IF white THEN beta ELSE Min(beta, r.val),
                                        IF better THEN moves[i] ELSE best_move,
                                        IF better THEN r.val ELSE best_value)
      IN Step(AlphaBeta_alpha_beta([s EXCEPT !.board = pushed], d - 1, alpha, beta,
              pushed.turn = WHITE, 1))

\* AlphaBetaSearch.search with best_value started at 0 instead of -inf / +inf: a root
\* whose moves all score on the wrong side of 0 then reports no move
AlphaBetaSearch_search_best_value_zero(b, d) ==
    AlphaBeta_search_loop(Start(b, {}), AlphaBeta_order_moves(b, legal_moves(b)), 1, d,
                          -Inf, Inf, NoMove, 0)

AlphaBetaSearch_search(b, d) ==
    AlphaBeta_search_loop(Start(b, {}), AlphaBeta_order_moves(b, legal_moves(b)), 1, d,
                          -Inf, Inf, NoMove, IF b.turn = WHITE THEN -Inf ELSE Inf)

\* self.evaluator as Expectimax sees it: the same score, in 1/ExScale units
ExEval(b, ply) == ExScale * evaluate(b, ply)

RECURSIVE Expectimax_expectimax(_, _, _, _, _)
RECURSIVE Expectimax_chance_loop(_, _, _, _, _, _, _)
RECURSIVE Expectimax_optimal_loop(_, _, _, _, _, _, _)
RECURSIVE Expectimax_quiescence(_, _, _, _, _)
RECURSIVE Expectimax_quiescence_loop(_, _, _, _, _, _, _)

\* the two capture loops of ExpectimaxSearch._quiescence
Expectimax_quiescence_loop(s, moves, i, alpha, beta, maximizing, ply) ==
    IF i > Len(moves) THEN [val |-> IF maximizing THEN alpha ELSE beta, s |-> s]
    ELSE
      LET pushed == push(s.board, moves[i])
          child_key == PathKey(pushed)
          seen == child_key \in s.path
          Step(r) ==
             IF r.s.raised THEN r
             ELSE
               LET s2 == [r.s EXCEPT !.board = pop(@),
                                     !.path = IF seen THEN @ ELSE @ \ {child_key}]
                   score == r.val
               IN IF maximizing
                  THEN IF score >= beta THEN [val |-> beta, s |-> s2]
                       ELSE Expectimax_quiescence_loop(s2, moves, i + 1,
                                IF score > alpha THEN score ELSE alpha, beta, maximizing, ply)
                  ELSE IF score <= alpha THEN [val |-> alpha, s |-> s2]
                       ELSE Expectimax_quiescence_loop(s2, moves, i + 1,
                                alpha, IF score < beta THEN score ELSE beta, maximizing, ply)
      IN Step(IF seen THEN [val |-> 0, s |-> [s EXCEPT !.board = pushed]]
              ELSE Expectimax_quiescence([s EXCEPT !.board = pushed, !.path = @ \cup {child_key}],
                                         alpha, beta, ~maximizing, ply + 1))

Expectimax_quiescence(s0, alpha, beta, maximizing, ply) ==
    IF ply > RecursionLimit THEN Raise(s0)
    ELSE
      LET s == [s0 EXCEPT !.nodes = @ + 1, !.sense = Sense(s0, maximizing)]
          stand_pat == ExEval(s.board, ply)
      IN IF maximizing /\ stand_pat >= beta THEN [val |-> beta, s |-> s]
         ELSE IF ~maximizing /\ stand_pat <= alpha THEN [val |-> alpha, s |-> s]
         ELSE Expectimax_quiescence_loop(s, Expectimax_order_moves(s.board, Captures(s.board)), 1,
                  IF maximizing /\ stand_pat > alpha THEN stand_pat ELSE alpha,
                  IF ~maximizing /\ stand_pat < beta THEN stand_pat ELSE beta,
                  maximizing, ply)

\* the chance-node loop: total_eval += eval_score
Expectimax_chance_loop(s, moves, i, d, agent_color, ply, total) ==
    IF i > Len(moves) THEN [val |-> total \div Len(moves), s |-> s]
    ELSE
      LET Step(r) ==
             IF r.s.raised THEN r
             ELSE Expectimax_chance_loop([r.s EXCEPT !.board = pop(@)], moves, i + 1, d,
                                         agent_color, ply, total + r.val)
      IN Step(Expectimax_expectimax([s EXCEPT !.board = push(@, moves[i])],
              d - 1, FALSE, agent_color, ply + 1))

\* the optimal-node loops: max for a White agent, min for a Black one
Expectimax_optimal_loop(s, moves, i, d, agent_color, ply, best) ==
    IF i > Len(moves) THEN [val |-> best, s |-> s]
    ELSE
      LET Step(r) ==
             IF r.s.raised THEN r
             ELSE Expectimax_optimal_loop([r.s EXCEPT !.board = pop(@)], moves, i + 1, d,
                                          agent_color, ply,
                                          IF agent_color = WHITE THEN Max(best, r.val) ELSE Min(best, r.val))
      IN Step(Expectimax_expectimax([s EXCEPT !.board = push(@, moves[i])],
              d - 1, TRUE, agent_color, ply + 1))

Expectimax_expectimax(s0, d, is_chance_node, agent_color, ply) ==
    IF ply > RecursionLimit THEN Raise(s0)
    ELSE
      LET s == [s0 EXCEPT !.nodes = @ + 1, !.mainPly = Max(@, ply)]
          key == PathKey(s.board)
      IN IF key \in s.path THEN [val |-> 0, s |-> s]
         ELSE
           LET s1 == [s EXCEPT !.path = @ \cup {key}]
               Step(r) ==
                  [val |-> r.val, s |-> [r.s EXCEPT !.path = @ \ {key}]]   \* finally: path_keys.remove(key)
           IN Step(IF is_game_over(s1.board) THEN [val |-> ExEval(s1.board, ply), s |-> s1]
                   ELSE IF d = 0
                   THEN Expectimax_quiescence(s1, -Inf, Inf, s1.board.turn = agent_color, ply)
                   ELSE IF is_chance_node
                   THEN Expectimax_chance_loop(s1, legal_moves(s1.board), 1, d, agent_color, ply, 0)
                   ELSE Expectimax_optimal_loop([s1 EXCEPT !.sense = Sense(s1, agent_color = WHITE)],
                   Expectimax_order_moves(s1.board, legal_moves(s1.board)),
                   1, d, agent_color, ply,
                   IF agent_color = WHITE THEN -Inf ELSE Inf))

RECURSIVE Expectimax_search_loop(_, _, _, _, _, _, _)
\* the root loop of ExpectimaxSearch.search
Expectimax_search_loop(s, moves, i, d, agent_color, best_move, best_value) ==
    IF i > Len(moves) THEN [move |-> best_move, score |-> best_value, s |-> s]
    ELSE
      LET Step(r) ==
             IF r.s.raised THEN [move |-> NoMove, score |-> 0, s |-> r.s]
             ELSE
               LET better == IF agent_color = WHITE THEN r.val > best_value ELSE r.val < best_value
               IN Expectimax_search_loop([r.s EXCEPT !.board = pop(@)], moves, i + 1, d, agent_color,
                                         IF better THEN moves[i] ELSE best_move,
                                         IF better THEN r.val ELSE best_value)
      IN Step(Expectimax_expectimax([s EXCEPT !.board = push(@, moves[i])], d - 1, TRUE, agent_color, 1))

ExpectimaxSearch_search(b, d) ==
    Expectimax_search_loop(Start(b, {PathKey(b)}), Expectimax_order_moves(b, legal_moves(b)), 1, d,
                           b.turn, NoMove, IF b.turn = WHITE THEN -Inf ELSE Inf)

----------------------------------------------------------------------------
(* SearchAgent: choose_move delegates to search(board, self.depth)         *)

Algorithms == {"minimax", "alphabeta", "expectimax"}

SearchAlgorithm_search(alg, b, d) ==
    CASE alg = "minimax" -> MiniMaxSearch_search(b, d)
      [] alg = "alphabeta" -> AlphaBetaSearch_search(b, d)
      [] alg = "expectimax" -> ExpectimaxSearch_search(b, d)

\* move, eval_score = self.search.search(board, self.depth); return move
SearchAgent_choose_move(alg, b, d) ==
    LET Result(r) ==
            [move |-> r.move, score |-> r.score, nodes |-> r.s.nodes, raised |-> r.s.raised,
             mainPly |-> r.s.mainPly, path |-> r.s.path, board |-> r.s.board,
             repeated |-> r.s.repeated, sense |-> r.s.sense]
    IN Result(SearchAlgorithm_search(alg, b, d))


(***************************************************************************)
(* Agents: base_agent.py, learning_agent.py, qlearning_agent.py            *)
(* alpha, epsilon and the discount are held in tenths; Q-values and state  *)
(* values are fixed point with resolution 1/QScale.  An operation that can *)
(* raise returns the exception's name in "raised" ("" when it returns).    *)
(***************************************************************************)

Tenths == 2 * 5
QScale == 2 ^ 10

NoBoard == [pl |-> "None"]      \* None where a board is expected

SetMax(S) == CHOOSE x \in S : \A y \in S : y <= x
SetMin(S) == CHOOSE x \in S : \A y \in S : x <= y

\* BaseAgent.__init__; the learning fields are absent until a subclass sets them
BaseAgent_init(key, color) ==
    [key |-> key, color |-> color, depth |-> 0, moves_made |-> 0, nodes_searched |-> 0,
     total_time |-> 0,
     alpha |-> 0, epsilon |-> 0, discount |-> 0, numTraining |-> 0,
     episodesSoFar |-> 0, accumTrainRewards |-> 0, accumTestRewards |-> 0,
     hasEpisodeRewards |-> FALSE, episodeRewards |-> 0,
     lastState |-> NoBoard, lastAction |-> NoMove,
     q_values |-> <<>>, values |-> <<>>, states |-> {}, newStates |-> {}, iterations |-> 0]

ValueEstimationAgent_init(key, color, alpha, epsilon, gamma, numTraining) ==
    [BaseAgent_init(key, color) EXCEPT !.alpha = alpha, !.epsilon = epsilon,
                                       !.discount = gamma, !.numTraining = numTraining]

\* episodesSoFar, accumTrainRewards and accumTestRewards start at 0
ReinforcementAgent_init(key, color, numTraining, epsilon, alpha, gamma) ==
    [ValueEstimationAgent_init(key, color, alpha, epsilon, gamma, numTraining)
        EXCEPT !.episodesSoFar = 0, !.accumTrainRewards = 0, !.accumTestRewards = 0]

ReinforcementAgent_startEpisode(ag) ==
    [ag EXCEPT !.lastState = NoBoard, !.lastAction = NoMove,
               !.hasEpisodeRewards = TRUE, !.episodeRewards = 0]

\* reads self.episodeRewards first: AttributeError if no episode was ever started
ReinforcementAgent_stopEpisode(ag) ==
    IF ~ag.hasEpisodeRewards THEN [agent |-> ag, raised |-> "AttributeError"]
    ELSE
      LET a1 == IF ag.episodesSoFar < ag.numTraining
                THEN [ag EXCEPT !.accumTrainRewards = @ + ag.episodeRewards]
                ELSE [ag EXCEPT !.accumTestRewards = @ + ag.episodeRewards]
          a2 == [a1 EXCEPT !.episodesSoFar = @ + 1]
      IN [agent |-> IF a2.episodesSoFar >= a2.numTraining
                    THEN [a2 EXCEPT !.epsilon = 0, !.alpha = 0]
                    ELSE a2,
          raised |-> ""]

\* flipCoin(p): true with probability p; the outcomes that have non-zero probability
flipCoin(p) == IF p <= 0 THEN {FALSE} ELSE IF p >= Tenths THEN {TRUE} ELSE BOOLEAN

\* evaluation.evaluate(board, ply) of the top-level evaluation module the learning
\* agents import: draw 0, mate by distance, else material plus piece-square terms
evaluation_evaluate(b, ply) ==
    IF is_stalemate(b) \/ is_insufficient_material(b) THEN 0
    ELSE IF is_checkmate(b)
         THEN (IF b.turn = WHITE THEN -(MateScore - ply) ELSE MateScore - ply)
         ELSE StaticEval(b)

\* the key self.q_values is indexed with: (board.fen(), action)
QKey(b, m) == <<fen(b), m.uci>>

\* self.q_values is a defaultdict(float): a missing key reads 0.0 ...
QGet(q, k) == IF k \in DOMAIN q THEN q[k] ELSE 0

\* ... and reading it inserts it
QTouch(q, keys) == [k \in (DOMAIN q) \cup keys |-> QGet(q, k)]

QLearningAgent_getQValue(ag, b, m) == QGet(ag.q_values, QKey(b, m))

\* each legal move is pushed, the table is read with the board AFTER the move, and the
\* move is popped again
QLearningAgent_computeValueFromQValues(ag, b) ==
    IF is_game_over(b) \/ legal_moves(b) = <<>> THEN [val |-> 0, agent |-> ag]
    ELSE
      LET values == {QLearningAgent_getQValue(ag, push(b, m), m) : m \in LegalSet(b)}
          keys == {QKey(push(b, m), m) : m \in LegalSet(b)}
      IN [val |-> IF ag.color = BLACK THEN SetMin(values) ELSE SetMax(values),
          agent |-> [ag EXCEPT !.q_values = QTouch(@, keys)]]

\* board.turn = self.color is an assignment on the caller's board; moves holds the
\* candidates random.choice(bestMoves) picks from, {NoMove} for return None
QLearningAgent_computeActionFromQValues(ag, b) ==
    LET b1 == [b EXCEPT !.turn = ag.color]
    IN IF is_game_over(b1) \/ legal_moves(b1) = <<>>
       THEN [moves |-> {NoMove}, agent |-> ag, board |-> b1]
       ELSE
         LET curVal(m) == QLearningAgent_getQValue(ag, push(b1, m), m)
             values == {curVal(m) : m \in LegalSet(b1)}
             bestVal == IF ag.color = BLACK THEN SetMin(values) ELSE SetMax(values)
             keys == {QKey(push(b1, m), m) : m \in LegalSet(b1)}
         IN [moves |-> {m \in LegalSet(b1) : curVal(m) = bestVal},
             agent |-> [ag EXCEPT !.q_values = QTouch(@, keys)],
             board |-> b1]

\* the outcomes of getAction: one per coin flip and random choice
QLearningAgent_getAction(ag, b) ==
    LET b1 == [b EXCEPT !.turn = ag.color]
        explore == IF legal_moves(b1) = <<>>
                   THEN {[move |-> NoMove, agent |-> ag, board |-> b1, raised |-> "IndexError"]}
                   ELSE {[move |-> m, agent |-> ag, board |-> b1, raised |-> ""] : m \in LegalSet(b1)}
        exploit == UNION {{[move |-> m, agent |-> r.agent, board |-> r.board, raised |-> ""]
                             : m \in r.moves}
                           : r \in {QLearningAgent_computeActionFromQValues(ag, b1)}}
    IN UNION {IF coin THEN explore ELSE exploit : coin \in flipCoin(ag.epsilon)}

\* Q(s,a) <- (1-alpha)*Q(s,a) + alpha*(reward + discount*V(nextBoard)), written under
\* the key of the board BEFORE the action
QLearningAgent_update(ag, b, action, nextBoard, reward) ==
    LET Write(v) ==
            LET sample == QScale * reward + (v.agent.discount * v.val) \div Tenths
                old == QLearningAgent_getQValue(v.agent, b, action)
                new == ((Tenths - ag.alpha) * old + ag.alpha * sample) \div Tenths
            IN [v.agent EXCEPT !.q_values = (QKey(b, action) :> new) @@ @]
    IN Write(QLearningAgent_computeValueFromQValues(ag, nextBoard))

\* self.episodeRewards += deltaReward needs the attribute startEpisode creates
ReinforcementAgent_observeTransition(ag, b, action, nextState, deltaReward) ==
    IF ~ag.hasEpisodeRewards THEN [agent |-> ag, raised |-> "AttributeError"]
    ELSE [agent |-> QLearningAgent_update([ag EXCEPT !.episodeRewards = @ + deltaReward],
                                          b, action, nextState, deltaReward),
          raised |-> ""]

\* nextState = state.copy(); nextState.push(action) fails on action = None
QLearningAgent_doAction(ag, state, action) ==
    LET a1 == [ag EXCEPT !.lastState = state, !.lastAction = action]
    IN IF action = NoMove THEN [agent |-> a1, raised |-> "AttributeError"]
       ELSE LET nextState == push(state, action)
                reward == evaluation_evaluate(nextState, 0) - evaluation_evaluate(state, 0)
            IN ReinforcementAgent_observeTransition(a1, state, action, nextState, reward)

\* the outcomes of choose_move: the caller's board as getAction left it, the move, and
\* the exception when getAction or doAction raised
QLearningAgent_choose_move(ag, b) ==
    LET Done(g, d) == [move |-> IF d.raised = "" THEN g.move ELSE NoMove,
                       agent |-> d.agent, board |-> g.board, raised |-> d.raised]
    IN {IF g.raised # "" THEN g
        ELSE Done(g, QLearningAgent_doAction(g.agent, g.board, g.move))
        : g \in QLearningAgent_getAction(ag, b)}

\* final(board): the closing transition of a training game, then stopEpisode
QLearningAgent_final(ag, b) ==
    IF ag.lastState = NoBoard THEN [agent |-> ag, raised |-> "AttributeError"]
    ELSE LET deltaReward == evaluation_evaluate(b, 0) - evaluation_evaluate(ag.lastState, 0)
             Step(o) ==
                IF o.raised # "" THEN o ELSE ReinforcementAgent_stopEpisode(o.agent)
         IN Step(ReinforcementAgent_observeTransition(ag, ag.lastState, ag.lastAction, b, deltaReward))

(***************************************************************************)
(* valueIteration_agent.py                                                 *)
(***************************************************************************)

\* evaluation.is_endgame: no queens, or one queen and few minor and major pieces.  The
\* source's limit of four counts the pieces of a full board; on the model's board, whose
\* only minor or major piece is the rook, the limit is none, so that the position with
\* queen and rook is a middlegame as the initial position of chess is
is_endgame(b) ==
    LET queens == IF b.pl.bq = "gone" THEN 0 ELSE 1
        minors_majors == IF b.pl.wr = "gone" THEN 0 ELSE 1
    IN queens = 0 \/ (queens = 1 /\ minors_majors <= 0)

\* chess.Board(fen): the position of the FEN with an empty move stack
BoardFromFen(f) == [pl |-> f[1], turn |-> f[2], halfmove |-> f[3], fullmove |-> f[4],
                    stack |-> <<>>]

\* self.values is a defaultdict(float)
ValueIterationAgent_getValue(ag, state) == QGet(ag.values, state)

\* push the action, hand the move to the opponent, look one reply ahead, undo; the
\* evaluation is taken after board.pop().  sampled holds the positions the 1% coin may
\* register in self.newStates, read the keys getValue looked up
ValueIterationAgent_computeQValueFromValues(ag, b, action) ==
    LET b1 == [push(b, action) EXCEPT !.turn = IF ag.color = BLACK THEN WHITE ELSE BLACK]
        replies == {fen(push(b1, m)) : m \in LegalSet(b1)}
        cur_values == {ValueIterationAgent_getValue(ag, f) : f \in replies}
        value == IF legal_moves(b1) # <<>>
                 THEN (IF ag.color = BLACK THEN SetMin(cur_values) ELSE SetMax(cur_values))
                 ELSE ValueIterationAgent_getValue(ag, fen(b1))
        b2 == pop(b1)
    IN [val |-> QScale * evaluation_evaluate(b2, 0) + (ag.discount * value) \div Tenths,
        board |-> b2, sampled |-> replies,
        read |-> IF legal_moves(b1) # <<>> THEN replies ELSE {fen(b1)}]

\* the outcomes of computeActionFromValues: one per random.choice(bestActions) and per
\* set of positions the coin registered (at most MaxDiscovered of them in one call);
\* every key getValue read is in the defaultdict afterwards
ValueIterationAgent_computeActionFromValues(ag, b) ==
    IF is_game_over(b) THEN {[move |-> NoMove, agent |-> ag, board |-> b, raised |-> ""]}
    ELSE
      LET moves == legal_moves(b)
          Best(curQ) ==
              LET qs == {curQ[m].val : m \in LegalSet(b)}
                  bestQ == IF ag.color = BLACK THEN SetMin(qs) ELSE SetMax(qs)
                  sampled == UNION {curQ[m].sampled : m \in LegalSet(b)}
                  read == UNION {curQ[m].read : m \in LegalSet(b)}
              IN {[move |-> m, agent |-> [ag EXCEPT !.newStates = @ \cup S,
                                                    !.values = QTouch(@, read)],
                   board |-> curQ[moves[Len(moves)]].board, raised |-> ""]
                  : m \in {x \in LegalSet(b) : curQ[x].val = bestQ},
                    S \in {X \in SUBSET sampled : Cardinality(X) <= MaxDiscovered}}
      IN Best([m \in LegalSet(b) |-> ValueIterationAgent_computeQValueFromValues(ag, b, m)])

\* the outcomes of _update_state(state) on the agent object ag, one per choice of
\* best action and per set of positions the coin registered: value is the second
\* component of the returned pair, newStates the newStates of the object the call ran on
ValueIterationAgent_update_state(ag, state) ==
    LET curBoard == [BoardFromFen(state) EXCEPT !.turn = BLACK]
    IN IF is_endgame(curBoard) THEN {[value |-> 0, newStates |-> ag.newStates]}
       ELSE {[value |-> IF o.move = NoMove THEN 0
                        ELSE ValueIterationAgent_computeQValueFromValues(o.agent, curBoard,
                                                                         o.move).val,
              newStates |-> o.agent.newStates]
             : o \in ValueIterationAgent_computeActionFromValues(ag, curBoard)}

RECURSIVE ValueIterationAgent_runValueIteration(_, _)
\* each sweep maps _update_state over self.states in pool workers, each on its own
\* copy of the agent, of which only the returned pair reaches the parent; the parent
\* builds newVals from the pairs, then replaces the table and merges its own newStates
ValueIterationAgent_runValueIteration(ag, k) ==
    IF k = 0 THEN ag
    ELSE ValueIterationAgent_runValueIteration(
             [ag EXCEPT !.values = [s \in ag.states |->
                                       SetMax({o.value : o \in ValueIterationAgent_update_state(ag, s)})],
                        !.states = @ \cup ag.newStates,
                        !.newStates = {}],
             k - 1)

\* getStates(): the positions after each first move
ValueIterationAgent_getStates == {fen(push(NewBoard, m)) : m \in LegalSet(NewBoard)}

ValueIterationAgent_init(key, color, discount, iterations) ==
    ValueIterationAgent_runValueIteration(
        [ValueEstimationAgent_init(key, color, Tenths, 1, 8, 10)
            EXCEPT !.discount = discount, !.iterations = iterations,
                   !.states = ValueIterationAgent_getStates],
        iterations)

(***************************************************************************)
(* The agent factory and the calls every agent answers                     *)
(***************************************************************************)

AgentKeys == Algorithms \cup {"random", "simple", "qlearning", "valueiteration"}

\* create_agent(key, color, depth, vi_iterations, q_numTraining, q_epsilon); for
\* "qlearning" this is the agent as QLearningAgent.__init__ hands it to self.train()
create_agent(key, color, d, vi_iterations, q_numTraining, q_epsilon) ==
    CASE key \in Algorithms -> [BaseAgent_init(key, color) EXCEPT !.depth = d]
      [] key \in {"random", "simple"} -> BaseAgent_init(key, color)
      [] key = "qlearning" ->
            ReinforcementAgent_init(key, color, q_numTraining, q_epsilon, Tenths \div 2, Tenths)
      [] key = "valueiteration" -> ValueIterationAgent_init(key, color, 9, vi_iterations)

\* agent.startEpisode() / agent.stopEpisode(): BaseAgent declares both without self, so
\* the bound call raises TypeError on every agent that does not override them
Agent_startEpisode(ag) ==
    IF ag.key = "qlearning" THEN [agent |-> ReinforcementAgent_startEpisode(ag), raised |-> ""]
    ELSE [agent |-> ag, raised |-> "TypeError"]

Agent_stopEpisode(ag) ==
    IF ag.key = "qlearning" THEN ReinforcementAgent_stopEpisode(ag)
    ELSE [agent |-> ag, raised |-> "TypeError"]

SearchAgent_nodes_searched_last(ag, r) == r.nodes

\* SearchAgent.choose_move, line 31: self.nodes_searched += self.search.nodes_searched
SearchAgent_nodes_searched(ag, r) == ag.nodes_searched + r.nodes

\* the outcomes of agent.choose_move(board)
Agent_choose_move(ag, b) ==
    CASE ag.key \in Algorithms ->
            {[move |-> r.move,
              agent |-> IF r.raised THEN ag
                        ELSE [ag EXCEPT !.nodes_searched = SearchAgent_nodes_searched(ag, r)],
              board |-> r.board,
              raised |-> IF r.raised THEN "RecursionError" ELSE ""]
             : r \in {SearchAgent_choose_move(ag.key, b, ag.depth)}}
      [] ag.key = "random" ->
            IF legal_moves(b) = <<>> THEN {[move |-> NoMove, agent |-> ag, board |-> b, raised |-> ""]}
            ELSE {[move |-> m, agent |-> ag, board |-> b, raised |-> ""] : m \in LegalSet(b)}
      [] ag.key = "simple" ->
            {[move |-> IF legal_moves(b) = <<>> THEN NoMove ELSE legal_moves(b)[1],
              agent |-> ag, board |-> b, raised |-> ""]}
      [] ag.key = "qlearning" -> QLearningAgent_choose_move(ag, b)
      [] ag.key = "valueiteration" -> ValueIterationAgent_computeActionFromValues(ag, b)

\* the differences time.time() - start_time a call can measure, in clock ticks
Elapsed == 0..MaxElapsed

BaseAgent_select_move_always(ag, b) ==
    {[move |-> o.move, board |-> o.board, raised |-> o.raised, elapsed |-> elapsed,
      agent |-> IF o.raised = ""
                THEN [o.agent EXCEPT !.moves_made = @ + 1, !.total_time = @ + elapsed]
                ELSE o.agent]
     : o \in Agent_choose_move(ag, b), elapsed \in Elapsed}

\* BaseAgent.select_move: choose_move between two readings of the clock, then the
\* statistics when a move came back
BaseAgent_select_move(ag, b) ==
    {[move |-> o.move, board |-> o.board, raised |-> o.raised, elapsed |-> elapsed,
      agent |-> IF o.raised = "" /\ o.move # NoMove
                THEN [o.agent EXCEPT !.moves_made = @ + 1, !.total_time = @ + elapsed]
                ELSE o.agent]
     : o \in Agent_choose_move(ag, b), elapsed \in Elapsed}

\* BaseAgent.reset_stats
BaseAgent_reset_stats(ag) ==
    [ag EXCEPT !.moves_made = 0, !.nodes_searched = 0, !.total_time = 0]

NoRes == [move |-> NoMove, score |-> 0, nodes |-> 0, raised |-> FALSE, mainPly |-> 0,
          path |-> {}, before |-> NewBoard, ran |-> FALSE, repeated |-> FALSE, sense |-> TRUE]

(***************************************************************************)
(* Specifications                                                          *)
(***************************************************************************)

NoCall == [op |-> "none", before |-> NoBoard, move |-> NoMove, raised |-> "",
           agentBefore |-> BaseAgent_init("none", WHITE), calls |-> 0]

NoGame == [pc |-> "idle", result |-> "", raised |-> "", plies |-> 0,
           started |-> <<0, 0>>, stopped |-> <<0, 0>>, episodesAtStart |-> <<0, 0>>]

\* the parts of the state a specification does not use
AgentIdle ==
    /\ agent = BaseAgent_init("none", WHITE)
    /\ trainBoard = NoBoard
    /\ trainLeft = 0
    /\ last = NoCall

GameIdle ==
    /\ white_agent = BaseAgent_init("none", WHITE)
    /\ black_agent = BaseAgent_init("none", BLACK)
    /\ game = NoGame

\* no runValueIteration call is being followed
NoSweep == [pc |-> "idle", ag |-> BaseAgent_init("none", BLACK), left |-> 0, calls |-> 0,
            reruns |-> 0,
            tasks |-> {}, results |-> <<>>, atStart |-> BaseAgent_init("none", BLACK),
            registered |-> {}, pending |-> {}]

\* the value of a variable the specification at hand does not use
Unused == [pc |-> "unused"]

OthersIdle ==
    /\ vi = NoSweep
    /\ pz = Unused
    /\ elo = Unused
    /\ gui = Unused

SearchIdle ==
    /\ depth = 0
    /\ res = [a \in Algorithms |-> NoRes]

PstVals == {10 * k : k \in -PstMax..PstMax}

SearchInit ==
    /\ hasTranspositionKey \in BOOLEAN
    /\ pst \in [king : PstVals, rook : {0, 10}, queen : {0}]
    /\ board = NewBoard
    /\ depth \in 0..MaxDepth
    /\ res = [a \in Algorithms |-> NoRes]
    /\ AgentIdle
    /\ GameIdle
    /\ OthersIdle

Crashed == \E a \in Algorithms : res[a].raised

\* the caller plays a legal move on its board; earlier results are about another position
CallerPush ==
    /\ ~Crashed
    /\ Len(board.stack) < MaxGamePlies
    /\ \E m \in LegalSet(board) : board' = push(board, m)
    /\ res' = [a \in Algorithms |-> NoRes]
    /\ UNCHANGED <<otherVars, hasTranspositionKey, pst, depth, agentVars, gameVars>>

\* agent.select_move(board) of a search agent bound to algorithm alg
SelectMove(alg) ==
    /\ ~Crashed
    /\ ~res[alg].ran
    /\ \E r \in {SearchAgent_choose_move(alg, board, depth)} :
          /\ board' = r.board
          /\ res' = [res EXCEPT ![alg] = [move |-> r.move, score |-> r.score, nodes |-> r.nodes,
                                          raised |-> r.raised, mainPly |-> r.mainPly, path |-> r.path,
                                          before |-> board, ran |-> TRUE,
                                          repeated |-> r.repeated, sense |-> r.sense]]
    /\ UNCHANGED <<otherVars, hasTranspositionKey, pst, depth, agentVars, gameVars>>

MinimaxSelectMove == SelectMove("minimax")
AlphaBetaSelectMove == SelectMove("alphabeta")
ExpectimaxSelectMove == SelectMove("expectimax")

SearchNext == CallerPush \/ MinimaxSelectMove \/ AlphaBetaSelectMove \/ ExpectimaxSelectMove

SpecSearch == SearchInit /\ [][SearchNext]_vars

----------------------------------------------------------------------------
(* One agent from create_agent, its construction (QLearningAgent.train) and *)
(* then any sequence of startEpisode, choose_move and stopEpisode calls on  *)
(* a board the caller also plays moves on                                   *)

AgentsInit ==
    /\ hasTranspositionKey \in BOOLEAN
    /\ pst = [king |-> -10, rook |-> 10, queen |-> 0]
    /\ board = NewBoard
    /\ SearchIdle
    /\ OthersIdle
    /\ \E key \in AgentKeys, color \in BOOLEAN, d \in 1..2, n \in 0..MaxTraining, eps \in {0, 1} :
          /\ agent = create_agent(key, color, d, 1, n, eps)
          /\ trainLeft = IF key = "qlearning" THEN n ELSE 0
    /\ trainBoard = NoBoard
    /\ last = NoCall
    /\ GameIdle

\* __init__ has returned
Constructed == trainLeft = 0 /\ trainBoard = NoBoard /\ last.op # "__init__"

\* an exception inside train() leaves __init__: no agent object comes back
InitRaises(exc) ==
    /\ last' = [NoCall EXCEPT !.op = "__init__", !.raised = exc]
    /\ trainLeft' = 0
    /\ trainBoard' = NoBoard
    /\ UNCHANGED agent

\* train(): board = chess.Board(); self.startEpisode()
TrainStartEpisode ==
    /\ trainLeft > 0 /\ trainBoard = NoBoard /\ last.op # "__init__"
    /\ trainBoard' = NewBoard
    /\ agent' = ReinforcementAgent_startEpisode(agent)
    /\ UNCHANGED <<otherVars, hasTranspositionKey, pst, board, depth, res, trainLeft, last, gameVars>>

\* train(): the agent's turn: getAction and doAction on a copy, then board.push(action)
TrainAgentMove ==
    /\ trainBoard # NoBoard /\ ~is_game_over(trainBoard)
    /\ trainBoard.turn = agent.color
    /\ Len(trainBoard.stack) < MaxEpisodePlies
    /\ \E o \in QLearningAgent_choose_move(agent, trainBoard) :
          IF o.raised # "" THEN InitRaises(o.raised)
          ELSE /\ agent' = o.agent
               /\ trainBoard' = push(trainBoard, o.move)
               /\ UNCHANGED <<trainLeft, last>>
    /\ UNCHANGED <<otherVars, hasTranspositionKey, pst, board, depth, res, gameVars>>

\* train(): the opponent's turn: a uniformly random legal move
TrainOpponentMove ==
    /\ trainBoard # NoBoard /\ ~is_game_over(trainBoard)
    /\ trainBoard.turn # agent.color
    /\ Len(trainBoard.stack) < MaxEpisodePlies
    /\ \E m \in LegalSet(trainBoard) : trainBoard' = push(trainBoard, m)
    /\ UNCHANGED <<otherVars, hasTranspositionKey, pst, board, depth, res, agent, trainLeft, last, gameVars>>

\* train(): the game is over: self.final(board), and on to the next episode
TrainFinal ==
    /\ trainBoard # NoBoard /\ is_game_over(trainBoard)
    /\ \E r \in {QLearningAgent_final(agent, trainBoard)} :
          IF r.raised # "" THEN InitRaises(r.raised)
          ELSE /\ agent' = r.agent
               /\ trainBoard' = NoBoard
               /\ trainLeft' = trainLeft - 1
               /\ UNCHANGED last
    /\ UNCHANGED <<otherVars, hasTranspositionKey, pst, board, depth, res, gameVars>>

CanCall == Constructed /\ last.calls < MaxCalls

Called(op, mv, exc) == [op |-> op, before |-> board, move |-> mv, raised |-> exc,
                        agentBefore |-> agent, calls |-> last.calls + 1]

CallStartEpisode ==
    /\ CanCall
    /\ LET r == Agent_startEpisode(agent)
       IN agent' = r.agent /\ last' = Called("startEpisode", NoMove, r.raised)
    /\ UNCHANGED <<otherVars, hasTranspositionKey, pst, board, depth, res, trainBoard, trainLeft, gameVars>>

CallStopEpisode ==
    /\ CanCall
    /\ LET r == Agent_stopEpisode(agent)
       IN agent' = r.agent /\ last' = Called("stopEpisode", NoMove, r.raised)
    /\ UNCHANGED <<otherVars, hasTranspositionKey, pst, board, depth, res, trainBoard, trainLeft, gameVars>>

CallChooseMove ==
    /\ CanCall
    /\ \E o \in Agent_choose_move(agent, board) :
          /\ agent' = o.agent
          /\ board' = o.board
          /\ last' = Called("choose_move", o.move, o.raised)
    /\ UNCHANGED <<otherVars, hasTranspositionKey, pst, depth, res, trainBoard, trainLeft, gameVars>>

\* the caller plays a legal move on its board between calls
CallerPlaysMove ==
    /\ Constructed
    /\ Len(board.stack) < MaxGamePlies
    /\ \E m \in LegalSet(board) : board' = push(board, m)
    /\ last' = [NoCall EXCEPT !.calls = last.calls]
    /\ UNCHANGED <<otherVars, hasTranspositionKey, pst, depth, res, agent, trainBoard, trainLeft, gameVars>>

AgentsNext ==
    \/ TrainStartEpisode \/ TrainAgentMove \/ TrainOpponentMove \/ TrainFinal
    \/ CallStartEpisode \/ CallStopEpisode \/ CallChooseMove \/ CallerPlaysMove

SpecAgents == AgentsInit /\ [][AgentsNext]_vars

----------------------------------------------------------------------------
(* ValueIterationAgent.runValueIteration followed sweep by sweep: the parent  *)
(* process, the tasks of the process pool, and a caller that uses the agent   *)
(* between two runs                                                           *)

\* ValueIterationAgent.__init__ up to its call of runValueIteration
SweepInit ==
    /\ hasTranspositionKey = TRUE
    /\ pst = [king |-> -10, rook |-> 10, queen |-> 0]
    /\ board = NewBoard
    /\ SearchIdle
    /\ AgentIdle
    /\ GameIdle
    /\ pz = Unused /\ elo = Unused /\ gui = Unused
    /\ \E color \in BOOLEAN, iterations \in 1..MaxIterations :
          vi = [NoSweep EXCEPT
                  !.pc = "loop", !.left = iterations,
                  !.ag = [ValueEstimationAgent_init("valueiteration", color, Tenths, 1, 8, 10)
                             EXCEPT !.discount = 9, !.iterations = iterations,
                                    !.states = ValueIterationAgent_getStates]]

\* for _ in range(self.iterations): executor.map pickles the bound method, and with it
\* the agent as it is now, once for every state
StartSweep ==
    /\ vi.pc = "loop"
    /\ vi.left > 0
    /\ vi' = [vi EXCEPT !.pc = "map", !.tasks = vi.ag.states, !.results = <<>>,
                        !.atStart = vi.ag, !.pending = vi.registered, !.registered = {}]
    /\ UNCHANGED <<hasTranspositionKey, pst, board, depth, res, agentVars, gameVars, pz, elo, gui>>

\* a pool whose workers share the parent's agent object and store each value as soon
\* as it is computed
Worker_writes_table ==
    /\ vi.pc = "map"
    /\ \E s \in vi.tasks : \E o \in ValueIterationAgent_update_state(vi.ag, s) :
          /\ Cardinality(vi.registered \cup (o.newStates \ vi.ag.newStates)) <= MaxRegistered
          /\ vi' = [vi EXCEPT !.tasks = @ \ {s},
                              !.results = (s :> o.value) @@ @,
                              !.registered = @ \cup (o.newStates \ vi.ag.newStates),
                              !.ag = [@ EXCEPT !.values = (s :> o.value) @@ @]]
    /\ UNCHANGED <<hasTranspositionKey, pst, board, depth, res, agentVars, gameVars, pz, elo, gui>>

\* one task of the pool: _update_state(s) on the worker's unpickled copy of the agent.
\* The pair (s, value) travels back; what the call did to the copy stays in the worker
Worker ==
    /\ vi.pc = "map"
    /\ \E s \in vi.tasks : \E o \in ValueIterationAgent_update_state(vi.ag, s) :
          /\ Cardinality(vi.registered \cup (o.newStates \ vi.ag.newStates)) <= MaxRegistered
          /\ vi' = [vi EXCEPT !.tasks = @ \ {s},
                              !.results = (s :> o.value) @@ @,
                              !.registered = @ \cup (o.newStates \ vi.ag.newStates)]
    /\ UNCHANGED <<hasTranspositionKey, pst, board, depth, res, agentVars, gameVars, pz, elo, gui>>

\* leaving the with block waits for every task; then newVals is filled from the results,
\* self.values = newVals, self.states.update(self.newStates), self.newStates = set()
Collect ==
    /\ vi.pc = "map"
    /\ vi.tasks = {}
    /\ vi' = [vi EXCEPT !.pc = IF vi.left = 1 THEN "idle" ELSE "loop",
                        !.left = @ - 1, !.results = <<>>,
                        !.atStart = NoSweep.atStart, !.pending = {},
                        !.ag = [@ EXCEPT !.values = vi.results,
                                         !.states = @ \cup vi.ag.newStates,
                                         !.newStates = {}]]
    /\ UNCHANGED <<hasTranspositionKey, pst, board, depth, res, agentVars, gameVars, pz, elo, gui>>

\* agent.choose_move(b) in the parent process, on a position after a first move
Caller_choose_move ==
    /\ vi.pc = "idle"
    /\ vi.calls < MaxUses
    /\ \E b \in {push(NewBoard, m) : m \in LegalSet(NewBoard)} :
          \E o \in ValueIterationAgent_computeActionFromValues(vi.ag, b) :
             vi' = [vi EXCEPT !.ag = o.agent, !.calls = @ + 1]
    /\ UNCHANGED <<hasTranspositionKey, pst, board, depth, res, agentVars, gameVars, pz, elo, gui>>

\* agent.iterations = n; agent.runValueIteration()
Caller_runValueIteration ==
    /\ vi.pc = "idle"
    /\ vi.reruns < MaxReruns
    /\ \E n \in 1..MaxIterations :
          vi' = [vi EXCEPT !.ag = [@ EXCEPT !.iterations = n], !.left = n, !.pc = "loop",
                           !.reruns = @ + 1]
    /\ UNCHANGED <<hasTranspositionKey, pst, board, depth, res, agentVars, gameVars, pz, elo, gui>>

SweepNext == StartSweep \/ Worker \/ Collect \/ Caller_choose_move \/ Caller_runValueIteration

SpecSweep == SweepInit /\ [][SweepNext]_vars

----------------------------------------------------------------------------
(* The puzzle tools on one CSV file: PuzzleLoader.load, the dataset sampler   *)
(* create_puzzle_subset, PuzzleEvaluator.evaluate and the report's filters.   *)
(* A cell of a csv.DictReader row is text or, in a row shorter than the       *)
(* header, None: [kind, val] with kind "int" for the text of an integer.      *)
(* An Optional[int] argument is <<>> for None and <<n>> for n.                *)

\* int(x): the number, ValueError for any other text, TypeError for None
py_int(cell) ==
    [val |-> cell.val,
     raised |-> CASE cell.kind = "int" -> ""
                  [] cell.kind = "text" -> "ValueError"
                  [] OTHER -> "TypeError"]

\* _parse_row: the keyword arguments of Puzzle(...) are evaluated in order, rating
\* before themes; None has no split
PuzzleLoader_parse_row(row) ==
    LET Parsed(rating) ==
            IF rating.raised # "" THEN [puzzle |-> Unused, raised |-> rating.raised]
            ELSE IF row.Themes.kind = "none" THEN [puzzle |-> Unused, raised |-> "AttributeError"]
            ELSE [puzzle |-> [puzzle_id |-> row.PuzzleId, rating |-> rating.val,
                              themes |-> row.Themes.val],
                  raised |-> ""]
    IN Parsed(py_int(row.Rating))

\* _passes_filters: each filter is applied only if its argument is truthy; themes is
\* the set of required themes (empty for None or []), custom_filter the ids it accepts
PuzzleLoader_passes_filters(puzzle, min_rating, max_rating, themes, custom_filter) ==
    ~ \/ (min_rating # <<>> /\ min_rating[1] # 0 /\ puzzle.rating < min_rating[1])
      \/ (max_rating # <<>> /\ max_rating[1] # 0 /\ puzzle.rating > max_rating[1])
      \/ (themes # {} /\ \E theme \in themes : theme \notin puzzle.themes)
      \/ (custom_filter # <<>> /\ puzzle.puzzle_id \notin custom_filter[1])

RECURSIVE PuzzleLoader_load(_, _, _, _, _, _, _, _)
\* load from row i on, with the puzzles collected so far (count is their number); an
\* exception of _parse_row leaves load, which returns nothing
PuzzleLoader_load(rows, i, puzzles, min_rating, max_rating, themes, limit, custom_filter) ==
    IF i > Len(rows) \/ (limit # <<>> /\ limit[1] # 0 /\ Len(puzzles) >= limit[1])
    THEN [puzzles |-> puzzles, raised |-> ""]
    ELSE LET Step(p) ==
                IF p.raised # "" THEN [puzzles |-> <<>>, raised |-> p.raised]
                ELSE PuzzleLoader_load(
                         rows, i + 1,
                         IF PuzzleLoader_passes_filters(p.puzzle, min_rating, max_rating,
                                                        themes, custom_filter)
                         THEN Append(puzzles, p.puzzle) ELSE puzzles,
                         min_rating, max_rating, themes, limit, custom_filter)
         IN Step(PuzzleLoader_parse_row(rows[i]))

\* sample_data.RATING_BRACKETS
RATING_BRACKETS ==
    <<[min_r |-> 400, max_r |-> 1000, name |-> "Beginner"],
      [min_r |-> 1000, max_r |-> 1400, name |-> "Intermediate"],
      [min_r |-> 1400, max_r |-> 1800, name |-> "Advanced"],
      [min_r |-> 1800, max_r |-> 2200, name |-> "Expert"],
      [min_r |-> 2200, max_r |-> 3200, name |-> "Master"]>>

\* sample_data.KEY_THEMES
KEY_THEMES ==
    <<"mateIn1", "mateIn2", "mateIn3", "fork", "pin", "skewer", "discoveredAttack",
      "doubleCheck", "hangingPiece", "trappedPiece", "sacrifice", "deflection", "attraction",
      "backRankMate", "smotheredMate", "promotion", "xRayAttack">>

\* the values sample_stratified can return, each as the set of the chosen rows' indices
\* in rows.  selected is a dict keyed by PuzzleId: of two sampled rows with one id the
\* one inserted last stays.  The brackets are passes 1..5, the themes the passes after
sample_stratified(rows, puzzles_by_bracket, puzzles_by_theme, total_puzzles) ==
    LET per_bracket == ((total_puzzles * 6) \div 10) \div Len(RATING_BRACKETS)
        per_theme == ((total_puzzles * 4) \div 10) \div Len(KEY_THEMES)
        SameId(i, j) == rows[i].PuzzleId = rows[j].PuzzleId
        Samples(available, per) ==
            {S \in SUBSET available :
                Cardinality(S) = IF per < Cardinality(available) THEN per
                                 ELSE Cardinality(available)}
        Insert(selected, S) ==
            {(selected \ {i \in selected : \E j \in S : SameId(i, j)}) \cup latest
             : latest \in {L \in SUBSET S :
                            \A j \in S : Cardinality({l \in L : SameId(l, j)}) = 1}}
        Available(n, selected) ==
            IF n <= Len(RATING_BRACKETS) THEN puzzles_by_bracket[RATING_BRACKETS[n].name]
            ELSE {i \in puzzles_by_theme[KEY_THEMES[n - Len(RATING_BRACKETS)]]
                    : \A j \in selected : ~SameId(i, j)}
        RECURSIVE Pass(_, _)
        Pass(n, dicts) ==
            IF n > Len(RATING_BRACKETS) + Len(KEY_THEMES) THEN dicts
            ELSE Pass(n + 1,
                      UNION {UNION {Insert(selected, S)
                                    : S \in Samples(Available(n, selected),
                                                    IF n <= Len(RATING_BRACKETS)
                                                    THEN per_bracket ELSE per_theme)}
                             : selected \in dicts})
    IN Pass(1, {{}})

\* the outcomes of create_puzzle_subset on the rows of input_file: the rows written to
\* output_file, in the order written.  except (ValueError, KeyError) does not catch the
\* TypeError of int(None); themes_filter is a set, empty for None
create_puzzle_subset(rows, num_puzzles, rating_min, rating_max, themes_filter, stratified) ==
    IF \E i \in 1..Len(rows) : py_int(rows[i].Rating).raised = "TypeError"
    THEN {[selected |-> <<>>, raised |-> "TypeError"]}
    ELSE
      LET rating(i) == py_int(rows[i].Rating).val
          themes(i) == IF rows[i].Themes.kind = "none" THEN {} ELSE rows[i].Themes.val
          kept == {i \in 1..Len(rows) :
                      /\ py_int(rows[i].Rating).raised = ""
                      /\ ~(rating(i) < rating_min \/ rating(i) > rating_max)
                      /\ ~(themes_filter # {} /\ themes(i) \cap themes_filter = {})}
          puzzles_by_bracket ==
              [name \in {RATING_BRACKETS[n].name : n \in DOMAIN RATING_BRACKETS} |->
                  {i \in kept : \E n \in DOMAIN RATING_BRACKETS :
                                   /\ RATING_BRACKETS[n].name = name
                                   /\ RATING_BRACKETS[n].min_r <= rating(i)
                                   /\ rating(i) < RATING_BRACKETS[n].max_r}]
          puzzles_by_theme ==
              [theme \in {KEY_THEMES[n] : n \in DOMAIN KEY_THEMES} |->
                  {i \in kept : theme \in themes(i)}]
          all_puzzles == UNION {puzzles_by_bracket[name] : name \in DOMAIN puzzles_by_bracket}
          chosen == IF stratified
                    THEN sample_stratified(rows, puzzles_by_bracket, puzzles_by_theme, num_puzzles)
                    ELSE {S \in SUBSET all_puzzles :
                             Cardinality(S) = IF num_puzzles < Cardinality(all_puzzles)
                                              THEN num_puzzles ELSE Cardinality(all_puzzles)}
          \* sorted(selected, key=rating): rows of equal rating in the order sampled
          Written(S) ==
              {[k \in 1..Cardinality(S) |-> rows[order[k]]]
               : order \in {o \in [1..Cardinality(S) -> S] :
                               \A a, b \in 1..Cardinality(S) :
                                  a < b => o[a] # o[b] /\ rating(o[a]) <= rating(o[b])}}
      IN {[selected |-> out, raised |-> ""] : out \in UNION {Written(S) : S \in chosen}}

\* PuzzleResult called with the keywords kw: the __init__ @dataclass generates takes exactly the annotated
\* fields.  "puzzle = Puzzle" (line 24) is an assignment, not an annotation: puzzle is a
\* class attribute holding the class Puzzle and no parameter of __init__
PuzzleResult_init(kw) ==
    IF DOMAIN kw = {"solved", "agent_move", "correct_move", "eval_score", "nodes_searched",
                    "time_taken", "depth"}
    THEN [obj |-> kw, raised |-> ""]
    ELSE [obj |-> Unused, raised |-> "TypeError"]

\* EvaluationReport called with the keywords kw: none of the eight fields has a default; __post_init__ then
\* recomputes the aggregates from results.  A float quotient a / b is the pair <<a, b>>
EvaluationReport_init(kw) ==
    IF DOMAIN kw # {"agent_name", "total_puzzles", "solved", "results", "avg_time",
                    "avg_nodes", "solve_rate", "depth"}
    THEN [obj |-> Unused, raised |-> "TypeError"]
    ELSE
      LET results == kw.results
          RECURSIVE sum(_, _)
          sum(i, field) == IF i = 0 THEN 0 ELSE results[i][field] + sum(i - 1, field)
          total_puzzles == Len(results)
          solved == Cardinality({i \in DOMAIN results : results[i].solved})
      IN [obj |-> [kw EXCEPT
                     !.total_puzzles = total_puzzles,
                     !.solved = solved,
                     !.avg_time = IF total_puzzles > 0
                                  THEN <<sum(total_puzzles, "time_taken"), total_puzzles>>
                                  ELSE <<0, 1>>,
                     !.avg_nodes = IF total_puzzles > 0
                                   THEN <<sum(total_puzzles, "nodes_searched"), total_puzzles>>
                                   ELSE <<0, 1>>,
                     !.solve_rate = IF total_puzzles > 0 THEN <<solved * 100, total_puzzles>>
                                    ELSE <<0, 1>>,
                     !.depth = IF results # <<>> THEN results[1].depth ELSE 0],
          raised |-> ""]

RECURSIVE PuzzleEvaluator_evaluate(_, _, _, _, _)
\* evaluate from puzzle i on, with the results so far.  chosen[i] tells what
\* agent.choose_move does on puzzle i: "correct" (the first solution move), "other" or
\* "raise".  An exception of _evaluate_puzzle, from the except clause included, leaves
\* evaluate
PuzzleEvaluator_evaluate(puzzles, chosen, override_depth, i, results) ==
    LET evaluate_puzzle(puzzle, choice) ==
            IF choice = "raise"
            THEN PuzzleResult_init([puzzle |-> puzzle, solved |-> FALSE, agent_move |-> "None",
                                    correct_move |-> "correct", time_taken |-> 0,
                                    depth |-> override_depth])
            ELSE PuzzleResult_init([puzzle |-> puzzle, solved |-> choice = "correct",
                                    agent_move |-> choice, correct_move |-> "correct",
                                    eval_score |-> 0, nodes_searched |-> 7, time_taken |-> 1,
                                    depth |-> override_depth])
        Step(result) ==
            IF result.raised # "" THEN [obj |-> Unused, raised |-> result.raised]
            ELSE PuzzleEvaluator_evaluate(puzzles, chosen, override_depth, i + 1,
                                          Append(results, result.obj))
    IN IF i > Len(puzzles)
       THEN EvaluationReport_init(
                [agent_name |-> "agent", total_puzzles |-> Len(puzzles),
                 solved |-> Cardinality({k \in DOMAIN results : results[k].solved}),
                 results |-> results, depth |-> override_depth])
       ELSE Step(evaluate_puzzle(puzzles[i], chosen[i]))

\* the list comprehension and the construction both filters share: r.puzzle, then the
\* attribute `name` of it, then the test.  An instance without the field puzzle yields
\* the class attribute, the class Puzzle, which has no field values
EvaluationReport_filtered(report, name, min_rating, max_rating, theme) ==
    LET puzzle(r) == IF "puzzle" \in DOMAIN r THEN r.puzzle ELSE [__name__ |-> "Puzzle"]
        Keep(r) == IF name = "rating"
                   THEN min_rating <= puzzle(r)[name] /\ puzzle(r)[name] <= max_rating
                   ELSE theme \in puzzle(r)[name]
    IN IF \E k \in DOMAIN report.results : name \notin DOMAIN puzzle(report.results[k])
       THEN [obj |-> Unused, raised |-> "AttributeError"]
       ELSE LET filtered_results == SelectSeq(report.results, Keep)
            IN EvaluationReport_init(
                   [agent_name |-> report.agent_name,
                    total_puzzles |-> Len(filtered_results),
                    solved |-> Cardinality({k \in DOMAIN filtered_results
                                              : filtered_results[k].solved}),
                    results |-> filtered_results, depth |-> report.depth])

EvaluationReport_by_rating_range(report, min_rating, max_rating) ==
    EvaluationReport_filtered(report, "rating", min_rating, max_rating, "")

EvaluationReport_by_theme(report, theme) ==
    EvaluationReport_filtered(report, "themes", 0, 0, theme)

\* the CSV file: up to MaxRows rows; a short row lacks its trailing cells
PuzzlesInit ==
    /\ hasTranspositionKey = TRUE
    /\ pst = [king |-> -10, rook |-> 10, queen |-> 0]
    /\ board = NewBoard
    /\ SearchIdle
    /\ AgentIdle
    /\ GameIdle
    /\ vi = NoSweep /\ elo = Unused /\ gui = Unused
    /\ \E n \in 0..MaxRows :
          \E file \in [1..n -> {row \in [PuzzleId : {"p1", "p2"},
                                         Rating : {[kind |-> "int", val |-> 1000],
                                                   [kind |-> "int", val |-> 1500],
                                                   [kind |-> "text", val |-> 0],
                                                   [kind |-> "none", val |-> 0]},
                                         Themes : {[kind |-> "text", val |-> {"fork"}],
                                                   [kind |-> "text", val |-> {"fork", "endgame"}],
                                                   [kind |-> "none", val |-> {}]}]
                                : row.Rating.kind = "none" => row.Themes.kind = "none"}] :
             pz = [pc |-> "file", file |-> file, op |-> "none", args |-> <<>>,
                   puzzles |-> <<>>, out |-> <<>>, report |-> Unused, raised |-> ""]

\* loader.load(min_rating, max_rating, themes, limit, custom_filter)
Load ==
    /\ pz.pc = "file"
    /\ \E min_rating \in {<<>>, <<1500>>}, max_rating \in {<<>>, <<0>>, <<1000>>},
          themes \in {{}, {"fork", "endgame"}}, limit \in {<<>>, <<0>>, <<1>>},
          custom_filter \in {<<>>, <<{"p1"}>>} :
          \E r \in {PuzzleLoader_load(pz.file, 1, <<>>, min_rating, max_rating, themes, limit,
                                      custom_filter)} :
             pz' = [pz EXCEPT !.pc = IF r.raised = "" THEN "loaded" ELSE "raised",
                              !.op = "load",
                              !.args = <<min_rating, max_rating, themes, limit, custom_filter>>,
                              !.puzzles = r.puzzles, !.raised = r.raised]
    /\ UNCHANGED <<hasTranspositionKey, pst, board, depth, res, agentVars, gameVars, vi, elo, gui>>

\* create_puzzle_subset(input_file, output_file, num_puzzles, rating_min, rating_max,
\* themes_filter, stratified)
Sample ==
    /\ pz.pc = "file"
    /\ \E num_puzzles \in {1, 43}, rating_min \in {400}, rating_max \in {1500, 3200},
          themes_filter \in {{}, {"endgame"}}, stratified \in BOOLEAN :
          \E o \in create_puzzle_subset(pz.file, num_puzzles, rating_min, rating_max,
                                        themes_filter, stratified) :
             pz' = [pz EXCEPT !.pc = IF o.raised = "" THEN "sampled" ELSE "raised",
                              !.op = "sample",
                              !.args = <<num_puzzles, rating_min, rating_max, themes_filter,
                                         stratified>>,
                              !.out = o.selected, !.raised = o.raised]
    /\ UNCHANGED <<hasTranspositionKey, pst, board, depth, res, agentVars, gameVars, vi, elo, gui>>

\* evaluator.evaluate(agent, puzzles, depth) on the puzzles load returned
Evaluate ==
    /\ pz.pc = "loaded"
    /\ \E chosen \in [DOMAIN pz.puzzles -> {"correct", "other", "raise"}] :
          \E r \in {PuzzleEvaluator_evaluate(pz.puzzles, chosen, 3, 1, <<>>)} :
             pz' = [pz EXCEPT !.pc = IF r.raised = "" THEN "report" ELSE "raised",
                              !.op = "evaluate", !.args = <<chosen>>, !.file = <<>>,
                              !.report = r.obj, !.raised = r.raised]
    /\ UNCHANGED <<hasTranspositionKey, pst, board, depth, res, agentVars, gameVars, vi, elo, gui>>

\* a report built with every field given, one PuzzleResult for each loaded puzzle
Report ==
    /\ pz.pc = "loaded"
    /\ \E given \in [DOMAIN pz.puzzles -> [solved : BOOLEAN, nodes_searched : {0, 7}]] :
          \E r \in {EvaluationReport_init(
                        [agent_name |-> "agent", total_puzzles |-> 0, solved |-> 0,
                         results |-> [k \in DOMAIN pz.puzzles |->
                                         PuzzleResult_init(
                                             [solved |-> given[k].solved,
                                              agent_move |-> "other",
                                              correct_move |-> "correct", eval_score |-> 0,
                                              nodes_searched |-> given[k].nodes_searched,
                                              time_taken |-> 1, depth |-> 3]).obj],
                         avg_time |-> <<0, 1>>, avg_nodes |-> <<0, 1>>,
                         solve_rate |-> <<0, 1>>, depth |-> 3])} :
             pz' = [pz EXCEPT !.pc = "report", !.op = "report", !.args = <<>>, !.file = <<>>,
                              !.report = r.obj, !.raised = r.raised]
    /\ UNCHANGED <<hasTranspositionKey, pst, board, depth, res, agentVars, gameVars, vi, elo, gui>>

\* report.by_rating_range(min_rating, max_rating) or report.by_theme(theme); out is the
\* report returned
Rescope ==
    /\ pz.pc = "report"
    /\ \E args \in {<<"by_rating_range", 1000, 1400>>, <<"by_theme", "fork">>} :
          \E r \in {IF args[1] = "by_rating_range"
                    THEN EvaluationReport_by_rating_range(pz.report, args[2], args[3])
                    ELSE EvaluationReport_by_theme(pz.report, args[2])} :
             pz' = [pz EXCEPT !.pc = IF r.raised = "" THEN "rescoped" ELSE "raised",
                              !.op = args[1], !.args = args,
                              !.out = r.obj, !.raised = r.raised]
    /\ UNCHANGED <<hasTranspositionKey, pst, board, depth, res, agentVars, gameVars, vi, elo, gui>>

PuzzlesNext == Load \/ Sample \/ Evaluate \/ Report \/ Rescope

SpecPuzzles == PuzzlesInit /\ [][PuzzlesNext]_vars

(***************************************************************************)
(* The Elo round-robin tournament (scripts/tournament.py).                 *)
(*                                                                         *)
(* Ratings are Python floats.  The model keeps the arithmetic of IEEE 754  *)
(* (every operation returns the exact result rounded to the nearest        *)
(* representable number, ties to even) and scales the significand down     *)
(* from 53 bits to 9.  A number is a count of units of 2^-12: 1.0 is 4096, *)
(* and the ratings, between 1024 and 2048, are multiples of 4 points.      *)
(***************************************************************************)

\* the float nearest to n / d
fl(n, d) ==
    LET a == IF n < 0 THEN -n ELSE n
        RECURSIVE quantum(_)
        quantum(q) == IF a < (2 ^ 9) * q * d THEN q ELSE quantum(2 * q)
        Round(q) ==
            LET w == q * d
                lo == a \div w
                rest == a % w
            IN q * (IF 2 * rest > w \/ (2 * rest = w /\ lo % 2 = 1) THEN lo + 1 ELSE lo)
        Signed(r) == IF n < 0 THEN -r ELSE r
    IN Signed(Round(quantum(1)))

\* 10 ** (diff / 400.0): the division and the power, each rounded, tabulated for the
\* differences of two ratings between 1024 and 2048, from -400 to 400 points in steps of 4
pow10(diff) ==
    LET table == <<
            410, 419, 428, 438, 448, 460, 471, 482, 493, 504, 516, 526,
            538, 554, 566, 580, 592, 606, 620, 634, 648, 666, 680, 696,
            712, 728, 744, 762, 780, 796, 818, 838, 856, 876, 896, 916,
            936, 958, 984, 1006, 1028, 1052, 1076, 1100, 1128, 1152, 1184, 1212,
            1240, 1268, 1296, 1324, 1356, 1388, 1420, 1452, 1484, 1524, 1556, 1592,
            1628, 1668, 1708, 1748, 1788, 1832, 1872, 1916, 1960, 2008, 2056, 2104,
            2152, 2200, 2256, 2304, 2352, 2416, 2464, 2528, 2584, 2648, 2704, 2768,
            2832, 2904, 2968, 3040, 3104, 3176, 3256, 3328, 3408, 3488, 3568, 3648,
            3736, 3824, 3912, 4000, 4096, 4192, 4288, 4384, 4496, 4592, 4704, 4816,
            4928, 5040, 5152, 5280, 5408, 5520, 5648, 5792, 5920, 6064, 6208, 6336,
            6496, 6640, 6800, 6960, 7120, 7280, 7456, 7616, 7808, 7984, 8176, 8352,
            8576, 8768, 8960, 9152, 9376, 9600, 9824, 10048, 10304, 10528, 10784, 11008,
            11296, 11552, 11808, 12096, 12384, 12672, 12960, 13248, 13536, 13856, 14176, 14560,
            14880, 15232, 15584, 15936, 16288, 16640, 17024, 17536, 17920, 18304, 18752, 19136,
            19584, 20032, 20480, 21056, 21504, 22016, 22528, 23040, 23552, 24064, 24640, 25216,
            25920, 26496, 27072, 27712, 28352, 28992, 29632, 30336, 31104, 31872, 32576, 33280,
            34048, 34816, 35584, 36480, 37376, 38272, 39168, 40064, 40960>>
    IN table[(diff \div (4 * 4096)) + 101]

expected_score(rating_a, rating_b) ==
    fl(4096 * 4096, fl(4096 + pow10(fl(rating_b - rating_a, 1)), 1))

update_elo(r_a, r_b, score_a, k) ==
    LET e_a == expected_score(r_a, r_b)
        e_b == expected_score(r_b, r_a)
    IN [r_a_new |-> fl(r_a + fl(k * fl(score_a - e_a, 1), 1), 1),
        r_b_new |-> fl(r_b + fl(k * fl(fl(4096 - score_a, 1) - e_b, 1), 1), 1)]

\* run_tournament(agent_keys, games_per_pair, k) up to the first game: every rating
\* 1200.0, every record empty, the pairs in round-robin order
TournamentInit ==
    /\ hasTranspositionKey = TRUE
    /\ pst = [king |-> 0, rook |-> 0, queen |-> 0]
    /\ board = NewBoard
    /\ SearchIdle /\ AgentIdle /\ GameIdle
    /\ vi = NoSweep /\ pz = Unused /\ gui = Unused
    /\ \E agent_keys \in {<<"minimax", "random">>, <<"minimax", "random", "simple">>},
          games_per_pair \in 1..MaxGamesPerPair, k \in {20, 40} :
          LET keys == {agent_keys[i] : i \in DOMAIN agent_keys}
          IN elo = [pc |-> "play", agent_keys |-> agent_keys,
                    games_per_pair |-> games_per_pair, k |-> k,
                    ratings |-> [key \in keys |-> 1200 * 4096],
                    records |-> [key \in keys |-> [wins |-> 0, losses |-> 0, draws |-> 0]],
                    played |-> [key \in keys |-> 0],
                    i |-> 1, j |-> 2, game_idx |-> 0, result |-> "none"]

run_tournament_records_decisive_only(records, a, b, white_key, black_key, score_w) ==
    IF score_w = 4096
    THEN [records EXCEPT ![white_key].wins = @ + 1, ![black_key].losses = @ + 1]
    ELSE IF score_w = 0
    THEN [records EXCEPT ![black_key].wins = @ + 1, ![white_key].losses = @ + 1]
    ELSE records

\* run_tournament, lines 108-118: the records of the two keys after a game
run_tournament_records(records, a, b, white_key, black_key, score_w) ==
    IF score_w = 4096
    THEN [records EXCEPT ![white_key].wins = @ + 1, ![black_key].losses = @ + 1]
    ELSE IF score_w = 0
    THEN [records EXCEPT ![black_key].wins = @ + 1, ![white_key].losses = @ + 1]
    ELSE [records EXCEPT ![a].draws = @ + 1, ![b].draws = @ + 1]

\* one game of the round-robin: the colors, play_game's result, the Elo update of the
\* pair and the records; then the next game, the next pair, or the end.  play_game's
\* outcome is an input: one of its five results, or the exception of an episode hook.
\* elo.played counts the games each key has played to a result.
Game ==
    /\ elo.pc = "play"
    /\ \E result \in {"white", "black", "draw", "timeout", "error", "TypeError"} :
          LET a == elo.agent_keys[elo.i]
              b == elo.agent_keys[elo.j]
              white_key == IF elo.game_idx % 2 = 0 THEN a ELSE b
              black_key == IF elo.game_idx % 2 = 0 THEN b ELSE a
              score_w == CASE result = "white" -> 4096
                           [] result = "black" -> 0
                           [] OTHER -> 2048
              score_a == IF white_key = a THEN score_w ELSE fl(4096 - score_w, 1)
              recorded == run_tournament_records(elo.records, a, b, white_key, black_key,
                                                 score_w)
              n == Len(elo.agent_keys)
              lastGame == elo.game_idx + 1 = elo.games_per_pair
              lastOfRow == elo.j = n
              Rated(new) ==
                  [elo EXCEPT !.ratings = [@ EXCEPT ![a] = new.r_a_new, ![b] = new.r_b_new],
                              !.records = recorded,
                              !.played = [@ EXCEPT ![a] = @ + 1, ![b] = @ + 1],
                              !.result = result,
                              !.game_idx = IF lastGame THEN 0 ELSE @ + 1,
                              !.j = IF ~lastGame THEN @
                                    ELSE IF lastOfRow THEN elo.i + 2 ELSE @ + 1,
                              !.i = IF lastGame /\ lastOfRow THEN @ + 1 ELSE @,
                              !.pc = IF lastGame /\ lastOfRow /\ elo.i + 1 >= n
                                     THEN "done" ELSE "play"]
          IN elo' = IF result = "TypeError"   \* play_game raised: run_tournament ends here
                    THEN [elo EXCEPT !.pc = "raised", !.result = result]
                    ELSE Rated(update_elo(elo.ratings[a], elo.ratings[b], score_a, elo.k))
    /\ UNCHANGED <<hasTranspositionKey, pst, board, depth, res, agentVars, gameVars, vi, pz, gui>>

TournamentNext == Game

SpecTournament == TournamentInit /\ [][TournamentNext]_vars

(***************************************************************************)
(* The chess window (src/gui/chess_gui.py), in its two orchestration       *)
(* modes.  `board` is gui.board, the one position object of the window.    *)
(* Two threads run: the UI thread, which runs Tk's event loop and in it    *)
(* the handlers of the widgets and the callbacks queued with root.after,   *)
(* and the worker thread, which runs game_loop.  A step of the worker is   *)
(* the code between two points where the UI thread can run; a handler of   *)
(* the UI thread is followed from its start to its end, except that        *)
(* _make_move is followed in two steps, up to and from the prints before   *)
(* its board.push, where the worker can run.  gui.thread is the thread     *)
(* that took the last step.  The agents are search agents of depth one; a  *)
(* human side is None.                                                     *)
(***************************************************************************)

\* the UI thread between two handlers
UiIdle == [pc |-> "idle", caller |-> "", move |-> NoMove, move_san |-> <<>>,
           is_white_move |-> TRUE]

\* ChessGUI._make_move, lines 356-376, on the window g with the position b, entered
\* from caller: the test of the move and its notation, both read from the position
\* before it is touched.  The UI thread is left before the push of line 381, or, if the
\* move was refused, before the return to the caller.
ChessGUI__make_move(g, b, move, caller) ==
    [g EXCEPT !.ui = IF move \notin LegalSet(b) THEN [UiIdle EXCEPT !.pc = "push", !.caller = caller]
                     ELSE [pc |-> "push", caller |-> caller, move |-> move,
                           move_san |-> <<move.att, is_capture(move), move.to>>,
                           is_white_move |-> b.turn = WHITE]]

\* ChessGUI.make_move, the entry point for agents
ChessGUI_make_move(g, b, move, caller) ==
    IF move \in LegalSet(b) THEN ChessGUI__make_move(g, b, move, caller)
    ELSE [g EXCEPT !.ui = [UiIdle EXCEPT !.pc = "push", !.caller = caller]]

\* history_text.insert(tk.END, line + "\n") on a Text widget: the line is put after
\* the last character, so it continues a last line that has no newline of its own
Text_insert_end(text, line) ==
    IF text.open
    THEN [lines |-> [text.lines EXCEPT ![Len(text.lines)] = Append(@, line)], open |-> FALSE]
    ELSE [lines |-> Append(text.lines, <<line>>), open |-> FALSE]

\* play_game_with_gui(white_agent, black_agent) or watch_agents_play(white_agent,
\* black_agent) up to gui.run(): the window is built, the worker thread is started
GuiInit ==
    /\ hasTranspositionKey = TRUE
    /\ pst = [king |-> 0, rook |-> 0, queen |-> 0]
    /\ board = NewBoard
    /\ SearchIdle /\ AgentIdle /\ GameIdle
    /\ vi = NoSweep /\ pz = Unused /\ elo = Unused
    /\ \E mode \in {"play", "watch"}, white, black \in {"None", "agent"} :
          /\ mode = "watch" => white = "agent" /\ black = "agent"
          /\ gui = [mode |-> mode, white_agent |-> white, black_agent |-> black,
                    last_move |-> NoMove, move_history_sans |-> <<>>,
                    history_text |-> [lines |-> <<>>, open |-> FALSE],
                    status |-> "In Progress", dialog |-> "",
                    after |-> <<>>, last_move_count |-> 0, events |-> 0,
                    thread |-> "ui", ui |-> UiIdle,
                    worker |-> [pc |-> "loop", current_agent |-> "None", moves |-> <<>>,
                                pushed |-> FALSE, move_value |-> 0, best_move |-> NoMove,
                                best_value |-> 0, move |-> NoMove, raised |-> "",
                                current_move_count_before |-> 0]]

\* the head of game_loop's while loop, up to the call of choose_move
GameLoop_Top ==
    /\ gui.worker.pc = "loop"
    /\ Len(gui.after) < MaxQueued
    /\ Len(board.stack) < MaxGuiPlies
    /\ LET current_agent == IF board.turn = WHITE THEN gui.white_agent ELSE gui.black_agent
           thinking == [kind |-> "status", text |-> "is thinking"]
       IN gui' =
            [IF is_game_over(board)
             THEN [gui EXCEPT !.worker.pc = "exit",
                              !.after = IF gui.mode = "watch" /\ is_checkmate(board)
                                        THEN Append(@, [kind |-> "status", text |-> "Checkmate!"])
                                        ELSE IF gui.mode = "watch" /\ is_stalemate(board)
                                        THEN Append(@, [kind |-> "status",
                                                        text |-> "Stalemate - Draw"])
                                        ELSE @]
             ELSE IF current_agent = "None"
             THEN [gui EXCEPT !.last_move_count = Len(board.stack)]
             ELSE [gui EXCEPT !.worker.pc = "call",
                              !.worker.current_agent = current_agent,
                              !.after = Append(@, thinking)]
             EXCEPT !.thread = "worker"]
    /\ UNCHANGED <<hasTranspositionKey, pst, board, depth, res, agentVars, gameVars, vi, pz, elo>>

\* current_agent.choose_move(gui.board) in the worker thread: the root loop of the
\* search, one board.push or board.pop at a time, on the board it was given
ChooseMoveStep ==
    /\ gui.worker.pc \in {"call", "think"}
    /\ LET w == gui.worker
           Step(b, nw) == /\ board' = b
                          /\ gui' = [gui EXCEPT !.worker = nw, !.thread = "worker"]
       IN IF w.pc = "call"
          THEN Step(board, [w EXCEPT !.pc = "think", !.moves = legal_moves(board),
                                     !.pushed = FALSE, !.best_move = NoMove,
                                     !.best_value = IF board.turn = WHITE THEN -Inf ELSE Inf,
                                     !.raised = ""])
          ELSE IF w.pushed
          THEN IF board.stack = <<>>
               THEN Step(board, [w EXCEPT !.pc = "got", !.raised = "IndexError"])
               ELSE LET popped == pop(board)
                        better == IF popped.turn = WHITE THEN w.move_value > w.best_value
                                  ELSE w.move_value < w.best_value
                    IN Step(popped,
                            [w EXCEPT !.pushed = FALSE, !.moves = Tail(@),
                                      !.best_move = IF better THEN Head(w.moves) ELSE @,
                                      !.best_value = IF better THEN w.move_value ELSE @])
          ELSE IF w.moves # <<>>
          THEN LET pushed == push(board, Head(w.moves))
               IN Step(pushed, [w EXCEPT !.pushed = TRUE, !.move_value = evaluate(pushed, 1)])
          ELSE Step(board, [w EXCEPT !.pc = "got", !.move = w.best_move])
    /\ UNCHANGED <<hasTranspositionKey, pst, depth, res, agentVars, gameVars, vi, pz, elo>>

\* game_loop from the return of choose_move to the root.after that hands the move to
\* the UI thread
GameLoop_Got ==
    /\ gui.worker.pc = "got"
    /\ LET w == gui.worker
           move_san == <<w.move.att, is_capture(w.move), w.move.to>>
       IN gui' =
            [IF w.raised # ""
             THEN [gui EXCEPT !.worker.pc = IF gui.mode = "play" THEN "exit" ELSE "died"]
             ELSE IF w.move = NoMove
             THEN [gui EXCEPT !.worker.pc = "exit",
                              !.after = IF gui.mode = "play"
                                        THEN Append(@, [kind |-> "status",
                                                        text |-> "has no legal moves"])
                                        ELSE IF is_checkmate(board)
                                        THEN Append(@, [kind |-> "status", text |-> "Checkmate!"])
                                        ELSE IF is_stalemate(board)
                                        THEN Append(@, [kind |-> "status",
                                                        text |-> "Stalemate - Draw"])
                                        ELSE @]
             ELSE IF gui.mode = "play" /\ is_game_over(board)
             THEN [gui EXCEPT !.worker.pc = "exit"]
             ELSE IF w.move \notin LegalSet(board)
             THEN [gui EXCEPT !.worker.pc = IF gui.mode = "play" THEN "loop" ELSE "died"]
             ELSE IF gui.mode = "play"
             THEN [gui EXCEPT !.worker.pc = "wait",
                              !.worker.current_move_count_before = Len(board.stack),
                              !.after = Append(@, [kind |-> "make_ai_move", m |-> w.move,
                                                   san |-> move_san])]
             ELSE [gui EXCEPT !.worker.pc = "loop",
                              !.after = Append(@, [kind |-> "make_move", m |-> w.move,
                                                   san |-> move_san])]
             EXCEPT !.thread = "worker"]
    /\ UNCHANGED <<hasTranspositionKey, pst, board, depth, res, agentVars, gameVars, vi, pz, elo>>

\* play_game_with_gui: the worker's wait for the move count to change, and its end,
\* by the count, by the end of the game or by the ten-second timeout
GameLoop_Wait ==
    /\ gui.worker.pc = "wait"
    /\ \E timeout \in BOOLEAN :
          /\ timeout => Len(board.stack) = gui.worker.current_move_count_before
                        /\ ~is_game_over(board)
          /\ ~timeout => Len(board.stack) # gui.worker.current_move_count_before
                         \/ is_game_over(board)
          /\ gui' = [IF Len(board.stack) = gui.worker.current_move_count_before
                        /\ is_game_over(board)
                     THEN [gui EXCEPT !.worker.pc = "exit"]
                     ELSE [gui EXCEPT !.worker.pc = "loop",
                                      !.last_move_count = Len(board.stack)]
                     EXCEPT !.thread = "worker"]
    /\ UNCHANGED <<hasTranspositionKey, pst, board, depth, res, agentVars, gameVars, vi, pz, elo>>

\* the UI thread runs the oldest callback queued with root.after(0, ...)
UI_After ==
    /\ gui.ui.pc = "idle"
    /\ gui.after # <<>>
    /\ LET cb == Head(gui.after)
           g == [gui EXCEPT !.after = Tail(@), !.thread = "ui"]
       IN gui' = IF cb.kind = "status" THEN [g EXCEPT !.status = cb.text]
                 ELSE IF cb.kind = "make_ai_move" /\ cb.m \notin LegalSet(board) THEN g
                 ELSE ChessGUI_make_move(g, board, cb.m, cb.kind)
    /\ UNCHANGED <<hasTranspositionKey, pst, board, depth, res, agentVars, gameVars, vi, pz, elo>>

\* _make_move_from_entry: the user typed move_str and pressed Return
UI_Entry ==
    /\ gui.ui.pc = "idle"
    /\ gui.events < MaxUiEvents
    /\ Len(board.stack) < MaxGuiPlies
    /\ \E move_str \in {m.uci : m \in LegalSet(board)} \cup {"", "e1e1", "Ke9"} :
          LET g == [gui EXCEPT !.events = @ + 1, !.thread = "ui", !.dialog = ""]
          IN gui' = IF move_str = "" THEN g
                    ELSE IF move_str = "Ke9"
                    THEN [g EXCEPT !.dialog = "Could not parse move"]
                    ELSE IF \E m \in LegalSet(board) : m.uci = move_str
                    THEN ChessGUI__make_move(
                             g, board, CHOOSE m \in LegalSet(board) : m.uci = move_str,
                             "_make_move_from_entry")
                    ELSE [g EXCEPT !.dialog = "That move is not legal."]
    /\ UNCHANGED <<hasTranspositionKey, pst, board, depth, res, agentVars, gameVars, vi, pz, elo>>

\* ChessGUI._make_move, lines 377-421, and the rest of the handler that called it: the
\* push, the marker, the stored notation, the history line, the status; then the
\* status and move count of make_ai_move, or the status of watch_agents_play's callback
UI_Push ==
    /\ gui.ui.pc = "push"
    /\ LET u == gui.ui
           pushed == IF u.move = NoMove THEN board ELSE push(board, u.move)
           move_num == Len(pushed.stack)
           sans == Append(gui.move_history_sans, u.move_san)
           history_text ==
               IF u.is_white_move
               THEN [move_number |-> (move_num + 1) \div 2, form |-> ".", sans |-> <<u.move_san>>]
               ELSE IF Len(sans) >= 2
                    THEN [move_number |-> move_num \div 2, form |-> ".",
                          sans |-> <<sans[Len(sans) - 1], u.move_san>>]
                    ELSE [move_number |-> move_num \div 2, form |-> "...",
                          sans |-> <<u.move_san>>]
           made == IF u.move = NoMove THEN gui
                   ELSE [gui EXCEPT !.last_move = u.move,
                                    !.move_history_sans = sans,
                                    !.history_text = Text_insert_end(@, history_text),
                                    !.status = IF is_checkmate(pushed) THEN "Checkmate!"
                                               ELSE IF is_stalemate(pushed)
                                               THEN "Stalemate - Draw"
                                               ELSE IF is_game_over(pushed)
                                               THEN "Game Over - Draw"
                                               ELSE "In Progress"]
       IN /\ board' = pushed
          /\ gui' = [made EXCEPT !.ui = UiIdle, !.thread = "ui",
                                 !.status = IF u.caller \in {"make_ai_move", "make_move"}
                                            THEN "played" ELSE @,
                                 !.last_move_count = IF u.caller = "make_ai_move"
                                                     THEN Len(pushed.stack) ELSE @]
    /\ UNCHANGED <<hasTranspositionKey, pst, depth, res, agentVars, gameVars, vi, pz, elo>>

\* _undo_move: the Undo Move button
UI_Undo ==
    /\ gui.ui.pc = "idle"
    /\ gui.events < MaxUiEvents
    /\ IF Len(board.stack) > 0
       THEN /\ board' = pop(board)
            /\ gui' = [gui EXCEPT !.events = @ + 1, !.thread = "ui", !.dialog = "",
                                  !.last_move = NoMove,
                                  !.move_history_sans =
                                      IF @ # <<>> THEN SubSeq(@, 1, Len(@) - 1) ELSE @,
                                  !.history_text =
                                      LET lines == SubSeq(@.lines, 1, Len(@.lines) - 1)
                                      IN [lines |-> lines, open |-> lines # <<>>],
                                  !.status = "In Progress"]
       ELSE /\ board' = board
            /\ gui' = [gui EXCEPT !.events = @ + 1, !.thread = "ui", !.dialog = ""]
    /\ UNCHANGED <<hasTranspositionKey, pst, depth, res, agentVars, gameVars, vi, pz, elo>>

\* _reset_board: the Reset Board button and the answer to its question
UI_Reset ==
    /\ gui.ui.pc = "idle"
    /\ gui.events < MaxUiEvents
    /\ \E yes \in BOOLEAN :
          IF yes
          THEN /\ board' = NewBoard
               /\ gui' = [gui EXCEPT !.events = @ + 1, !.thread = "ui", !.dialog = "",
                                     !.last_move = NoMove,
                                     !.history_text = [lines |-> <<>>, open |-> FALSE],
                                     !.status = "In Progress"]
          ELSE /\ board' = board
               /\ gui' = [gui EXCEPT !.events = @ + 1, !.thread = "ui", !.dialog = ""]
    /\ UNCHANGED <<hasTranspositionKey, pst, depth, res, agentVars, gameVars, vi, pz, elo>>

GuiNext ==
    \/ GameLoop_Top \/ ChooseMoveStep \/ GameLoop_Got \/ GameLoop_Wait
    \/ UI_After \/ UI_Entry \/ UI_Push \/ UI_Undo \/ UI_Reset

SpecGui == GuiInit /\ [][GuiNext]_vars

----------------------------------------------------------------------------
(* src/evaluation/evaluator.py: evaluate(board, ply_from_root) called on    *)
(* any position of the reduced game with any ply; `last` keeps the call     *)
(* and the call before it on the same position.                             *)

NoEval == [op |-> "none", ply |-> -1, score |-> 0, prev_ply |-> -1, prev_score |-> 0]

EvalInit ==
    /\ hasTranspositionKey = TRUE
    /\ pst \in [king : PstVals, rook : {0, 10}, queen : {0}]
    /\ \E pl \in Placements, turn \in BOOLEAN :
          board = [NewBoard EXCEPT !.pl = pl, !.turn = turn]
    /\ SearchIdle
    /\ OthersIdle
    /\ GameIdle
    /\ agent = BaseAgent_init("none", WHITE)
    /\ trainBoard = NoBoard
    /\ trainLeft = 0
    /\ last = NoEval

\* score = evaluate(board, ply)
EvaluateCall ==
    /\ \E ply \in 0..MaxPly :
          last' = [op |-> "evaluate", ply |-> ply, score |-> evaluate(board, ply),
                   prev_ply |-> last.ply, prev_score |-> last.score]
    /\ UNCHANGED <<otherVars, hasTranspositionKey, pst, board, depth, res, agent, trainBoard,
                   trainLeft, gameVars>>

EvalNext == EvaluateCall

SpecEval == EvalInit /\ [][EvalNext]_vars

----------------------------------------------------------------------------
(* One agent without learning, from create_agent, and any sequence of      *)
(* select_move and reset_stats calls on a board the caller also plays      *)
(* moves on.  `last` keeps what the caller saw since the last reset:       *)
(* how many calls returned a move, the sum of their elapsed times and of   *)
(* the node counts the search object reported, and the call before.        *)

NoStats == [op |-> "none", move |-> NoMove, returned |-> 0, elapsed |-> 0, counts |-> 0,
            count |-> 0, calls |-> 0, board |-> NoBoard,
            before |-> BaseAgent_init("none", WHITE)]

StatsInit ==
    /\ hasTranspositionKey \in BOOLEAN
    /\ pst = [king |-> -10, rook |-> 10, queen |-> 0]
    /\ board = NewBoard
    /\ SearchIdle
    /\ OthersIdle
    /\ GameIdle
    /\ \E key \in Algorithms \cup {"random", "simple"}, color \in BOOLEAN, d \in 1..2 :
          agent = create_agent(key, color, d, 1, 0, 0)
    /\ trainBoard = NoBoard
    /\ trainLeft = 0
    /\ last = NoStats

\* agent.select_move(board)
StatsSelectMove ==
    /\ last.calls < MaxCalls
    /\ \E o \in BaseAgent_select_move(agent, board),
          count \in {IF agent.key \in Algorithms
                     THEN SearchAgent_choose_move(agent.key, board, agent.depth).nodes
                     ELSE 0} :
          /\ agent' = o.agent
          /\ board' = o.board
          /\ last' = IF o.raised # "" THEN [last EXCEPT !.op = "raised", !.calls = @ + 1]
                     ELSE [op |-> "select_move", move |-> o.move,
                           returned |-> last.returned + (IF o.move # NoMove THEN 1 ELSE 0),
                           elapsed |-> last.elapsed + (IF o.move # NoMove THEN o.elapsed ELSE 0),
                           counts |-> last.counts + count, count |-> count,
                           calls |-> last.calls + 1, board |-> board, before |-> agent]
    /\ UNCHANGED <<otherVars, hasTranspositionKey, pst, depth, res, trainBoard, trainLeft, gameVars>>

\* agent.reset_stats()
StatsResetStats ==
    /\ last.op \notin {"none", "reset_stats"}
    /\ agent' = BaseAgent_reset_stats(agent)
    /\ last' = [NoStats EXCEPT !.op = "reset_stats", !.calls = last.calls]
    /\ UNCHANGED <<otherVars, hasTranspositionKey, pst, board, depth, res, trainBoard, trainLeft, gameVars>>

\* the caller plays a legal move on its board between calls
StatsCallerPush ==
    /\ Len(board.stack) < MaxGamePlies
    /\ \E m \in LegalSet(board) : board' = push(board, m)
    /\ last' = [last EXCEPT !.op = "push"]
    /\ UNCHANGED <<otherVars, hasTranspositionKey, pst, depth, res, agent, trainBoard, trainLeft, gameVars>>

StatsNext == StatsSelectMove \/ StatsResetStats \/ StatsCallerPush

SpecStats == StatsInit /\ [][StatsNext]_vars

----------------------------------------------------------------------------
(* scripts/agent_utils.py: play_game(white_agent, black_agent) on two agents *)
(* from create_agent with its default q_numTraining = 0.  The loop is        *)
(* followed move by move; time.time() is a clock the model does not own, so   *)
(* the timeout test may succeed at any iteration.                             *)

GameInit ==
    /\ hasTranspositionKey \in BOOLEAN
    /\ pst = [king |-> -10, rook |-> 10, queen |-> 0]
    /\ board = NewBoard
    /\ SearchIdle
    /\ OthersIdle
    /\ AgentIdle
    /\ \E wkey \in AgentKeys, weps \in {0, 1} : white_agent = create_agent(wkey, WHITE, 1, 1, 0, weps)
    /\ \E bkey \in AgentKeys, beps \in {0, 1} : black_agent = create_agent(bkey, BLACK, 1, 1, 0, beps)
    /\ game = [NoGame EXCEPT !.pc = "created"]

\* lines 55-58: board = chess.Board(); white_agent.startEpisode(); black_agent.startEpisode()
PlayGame_StartEpisodes ==
    /\ game.pc = "created"
    /\ board' = NewBoard
    /\ LET w == Agent_startEpisode(white_agent)
           b == Agent_startEpisode(black_agent)
       IN IF w.raised # ""
          THEN /\ game' = [game EXCEPT !.pc = "raised", !.raised = w.raised, !.started = <<1, 0>>]
               /\ UNCHANGED <<white_agent, black_agent>>
          ELSE /\ white_agent' = w.agent
               /\ black_agent' = b.agent
               /\ game' = IF b.raised # ""
                          THEN [game EXCEPT !.pc = "raised", !.raised = b.raised, !.started = <<1, 1>>]
                          ELSE [game EXCEPT !.pc = "loop", !.started = <<1, 1>>,
                                            !.episodesAtStart = <<w.agent.episodesSoFar,
                                                                  b.agent.episodesSoFar>>]
    /\ UNCHANGED <<otherVars, hasTranspositionKey, pst, depth, res, agentVars>>

\* the timeout branch with the stopEpisode calls of lines 69-70 made before it returns:
\* the fault the hook-pairing property must catch
PlayGame_Timeout_stops_episodes ==
    /\ game.pc = "loop" /\ ~is_game_over(board)
    /\ white_agent' = Agent_stopEpisode(white_agent).agent
    /\ black_agent' = Agent_stopEpisode(black_agent).agent
    /\ game' = [game EXCEPT !.pc = "returned", !.result = "timeout", !.stopped = <<1, 1>>]
    /\ UNCHANGED <<otherVars, hasTranspositionKey, pst, board, depth, res, agentVars>>

\* lines 59-61: the game is not over and the budget is spent: return "timeout"
PlayGame_Timeout ==
    /\ game.pc = "loop" /\ ~is_game_over(board)
    /\ game' = [game EXCEPT !.pc = "returned", !.result = "timeout"]
    /\ UNCHANGED <<otherVars, hasTranspositionKey, pst, board, depth, res, agentVars, white_agent, black_agent>>

\* lines 63-67: the side to move selects; None returns "error", a move is pushed
PlayGame_Move ==
    /\ game.pc = "loop" /\ ~is_game_over(board)
    /\ game.plies < MaxGameLen
    /\ \E o \in BaseAgent_select_move(IF board.turn = WHITE THEN white_agent ELSE black_agent, board) :
          /\ IF board.turn = WHITE
             THEN white_agent' = o.agent /\ UNCHANGED black_agent
             ELSE black_agent' = o.agent /\ UNCHANGED white_agent
          /\ IF o.raised # ""
             THEN board' = o.board /\ game' = [game EXCEPT !.pc = "raised", !.raised = o.raised]
             ELSE IF o.move = NoMove
             THEN board' = o.board /\ game' = [game EXCEPT !.pc = "returned", !.result = "error"]
             ELSE board' = push(o.board, o.move) /\ game' = [game EXCEPT !.plies = @ + 1]
    /\ UNCHANGED <<otherVars, hasTranspositionKey, pst, depth, res, agentVars>>

\* lines 69-74: the loop ended on a finished game: stopEpisode on both, then the result
PlayGame_Finish ==
    /\ game.pc = "loop" /\ is_game_over(board)
    /\ LET w == Agent_stopEpisode(white_agent)
           b == Agent_stopEpisode(black_agent)
       IN IF w.raised # ""
          THEN /\ game' = [game EXCEPT !.pc = "raised", !.raised = w.raised, !.stopped = <<1, 0>>]
               /\ UNCHANGED <<white_agent, black_agent>>
          ELSE /\ white_agent' = w.agent
               /\ black_agent' = b.agent
               /\ game' = IF b.raised # ""
                          THEN [game EXCEPT !.pc = "raised", !.raised = b.raised, !.stopped = <<1, 1>>]
                          ELSE [game EXCEPT !.pc = "returned", !.stopped = <<1, 1>>,
                                   !.result = IF is_checkmate(board)
                                              THEN (IF board.turn = BLACK THEN "white" ELSE "black")
                                              ELSE "draw"]
    /\ UNCHANGED <<otherVars, hasTranspositionKey, pst, board, depth, res, agentVars>>

GameNext == PlayGame_StartEpisodes \/ PlayGame_Timeout \/ PlayGame_Move \/ PlayGame_Finish

SpecGame == GameInit /\ [][GameNext]_vars

(***************************************************************************)
(* Properties of the search algorithms                                     *)
(***************************************************************************)

Returned(a) == res[a].ran /\ ~Crashed

\* C1: for every position, every depth >= 1 and the same evaluator, AlphaBetaSearch.search
\* returns exactly the score MiniMaxSearch.search returns
C1_AlphaBetaScoreEqualsMinimax ==
    (Returned("minimax") /\ Returned("alphabeta") /\ depth >= 1)
        => res["alphabeta"].score = res["minimax"].score

\* C2: every top-level search call that returns (Minimax, Alpha-Beta, Expectimax, with
\* quiescence, cutoffs and early returns) leaves the position it was given as it was:
\* same placement, side to move, counters and move stack
C2_SearchRestoresPosition ==
    \A a \in Algorithms : Returned(a) => board = res[a].before

\* C2's case: after moves were played, Alpha-Beta returned having cut branches off
\* (fewer nodes than Minimax on the same position and depth)
C2_Witness ==
    /\ Returned("minimax") /\ Returned("alphabeta") /\ Returned("expectimax")
    /\ Len(board.stack) > 0
    /\ depth >= 1
    /\ res["alphabeta"].nodes < res["minimax"].nodes
    /\ board = res["alphabeta"].before

\* C3: for every position and every configured depth >= 0 a top-level search call
\* terminates normally, and its main recursion goes no deeper than depth plies below the
\* root before handing over to quiescence
C3_SearchTerminatesWithinDepth ==
    \A a \in Algorithms : res[a].ran => (~res[a].raised /\ res[a].mainPly <= depth)

\* C4: search returns an absent move exactly when the root has no legal moves, and a
\* returned move (also through SearchAgent.choose_move) is a legal move of the position
C4_MoveAbsentIffNoLegalMoves ==
    \A a \in Algorithms : Returned(a) =>
        /\ (res[a].move = NoMove <=> legal_moves(res[a].before) = <<>>)
        /\ (res[a].move # NoMove => res[a].move \in LegalSet(res[a].before))

\* C4's case: a root without legal moves, reached by play, where all three algorithms
\* returned the absent move
C4_Witness ==
    /\ \A a \in Algorithms : Returned(a) /\ res[a].move = NoMove
    /\ legal_moves(board) = <<>>
    /\ Len(board.stack) > 0

(***************************************************************************)
(* Properties of play_game                                                 *)
(***************************************************************************)

Natural == game.pc = "returned" /\ game.result \in {"white", "black", "draw"}

\* C5: for any pair of agents from create_agent, play_game calls startEpisode on both
\* agents without an exception (the hooks are no-ops on non-learning agents) and, when
\* it returns, returns one of "white", "black", "draw", "timeout", "error"
C5_PlayGameStartsBothAndReturns ==
    /\ game.pc \notin {"idle", "created"} => (game.raised = "" /\ game.started = <<1, 1>>)
    /\ game.pc = "returned" => game.result \in {"white", "black", "draw", "timeout", "error"}

\* C6: stopEpisode has been called once on each agent exactly when play_game's loop
\* ended on a finished game; after "timeout" or "error" it was called on neither and no
\* agent's episode index moved, after a finished game each index moved by one
C6_StopEpisodeIffGameOver ==
    /\ game.stopped = IF Natural THEN <<1, 1>> ELSE <<0, 0>>
    /\ (game.pc = "returned" /\ ~Natural) =>
           <<white_agent.episodesSoFar, black_agent.episodesSoFar>> = game.episodesAtStart
    /\ Natural =>
           <<white_agent.episodesSoFar, black_agent.episodesSoFar>>
               = <<game.episodesAtStart[1] + 1, game.episodesAtStart[2] + 1>>

\* C6's case: two learning agents played a game to its end and play_game returned
C6_Witness ==
    /\ Natural
    /\ game.plies >= 2
    /\ game.stopped = <<1, 1>>
    /\ white_agent.key = "qlearning" /\ black_agent.key = "qlearning"
    /\ white_agent.episodesSoFar = 1

(***************************************************************************)
(* Properties of the agents' calls                                         *)
(***************************************************************************)

\* C7: when choose_move of any agent returns, the position object it was given is as it
\* was before the call (pieces, side to move, move stack), also when the side to move
\* is not the agent's color
C7_ChooseMoveLeavesPosition ==
    (last.op = "choose_move" /\ last.raised = "") => board = last.before

\* C8: choose_move of a Q-learning or Value-Iteration agent never raises, returns a move
\* legal in the given position when there is one and the absent move when there is none,
\* for every numTraining >= 0 and with or without a startEpisode call before
C8_LearningAgentMoveLegalOrAbsent ==
    (agent.key \in {"qlearning", "valueiteration"} /\ last.op = "choose_move") =>
        /\ last.raised = ""
        /\ IF legal_moves(last.before) = <<>> THEN last.move = NoMove
           ELSE last.move \in LegalSet(last.before)

\* C9: in every state of a constructed reinforcement agent, whatever calls were made on
\* it: if episodesSoFar >= numTraining then epsilon = 0 and alpha = 0
C9_TrainingOverMeansZeroed ==
    (agent.key = "qlearning" /\ Constructed /\ agent.episodesSoFar >= agent.numTraining)
        => (agent.epsilon = 0 /\ agent.alpha = 0)

\* the second half of C9, which the code keeps: once both rates are 0 no call makes
\* either non-zero again
C9_ZeroedStaysZeroed ==
    [][(agent.key = "qlearning" /\ agent.epsilon = 0 /\ agent.alpha = 0)
         => (agent'.epsilon = 0 /\ agent'.alpha = 0)]_vars

Opt(color, S) == IF color = BLACK THEN SetMin(S) ELSE SetMax(S)

\* the table entry for (position, action): the one update(position, action, ...) writes
Entry(q, p, m) == QGet(q, QKey(p, m))

\* C10: the update made by a choose_move on the agent's own turn sets Q(s,a) to
\* (1-alpha)*Q(s,a) + alpha*(r + gamma*V(s')), V(s') being 0 without legal actions and
\* else the max (White) / min (Black) of the entries (s',a'); and those entries, the ones
\* update writes, are the ones greedy action selection reads: the action selected in s
\* has the best entry (s, a) of all legal a
C10_UpdateAndSelectionShareEntries ==
    (agent.key = "qlearning" /\ last.op = "choose_move" /\ last.raised = ""
       /\ last.before.turn = agent.color)
    => LET ag0 == last.agentBefore
           q0 == ag0.q_values
           s == last.before
           a == last.move
           s2 == push(s, a)
           r == evaluation_evaluate(s2, 0) - evaluation_evaluate(s, 0)
           V == IF legal_moves(s2) = <<>> THEN 0
                ELSE Opt(ag0.color, {Entry(q0, s2, m) : m \in LegalSet(s2)})
           sample == QScale * r + (ag0.discount * V) \div Tenths
       IN /\ Entry(agent.q_values, s, a)
                = ((Tenths - ag0.alpha) * Entry(q0, s, a) + ag0.alpha * sample) \div Tenths
          /\ ag0.epsilon = 0
                => Entry(q0, s, a) = Opt(ag0.color, {Entry(q0, s, m) : m \in LegalSet(s)})


\* C11: a Value-Iteration sweep is synchronous.  While the pool works on a sweep, the
\* parent's value table is the table the sweep started with (no worker has written it;
\* it is replaced only by Collect, after the last task), and every result collected so
\* far is what _update_state yields on the table of the start of the sweep
C11_SweepIsSynchronous ==
    vi.pc = "map" =>
        /\ vi.ag.values = vi.atStart.values
        /\ \A s \in DOMAIN vi.results :
              vi.results[s] \in {o.value : o \in ValueIterationAgent_update_state(vi.atStart, s)}

\* a sweep in which the order of the tasks would matter to an in-place update: a state
\* whose collected value differs from the value it would have got from a table that
\* already held this sweep's other results
C11_Witness ==
    /\ vi.pc = "map"
    /\ \E s \in DOMAIN vi.results :
          /\ \E x \in DOMAIN vi.results : x # s /\ vi.results[x] # QGet(vi.atStart.values, x)
          /\ \A o \in ValueIterationAgent_update_state(
                          [vi.atStart EXCEPT !.values = vi.results @@ @], s) :
                o.value # vi.results[s]

\* C12: every state a Q-value computation registered as newly discovered during a sweep
\* (pending: the registrations of the sweep before the one in progress, those made in
\* pool workers included) is in the agent's known state set when the next sweep starts
C12_RegisteredStatesKnownNextSweep ==
    vi.pc = "map" => vi.pending \subseteq vi.ag.states


\* C13: for every known state of the agent, as a position with Black to move, and every
\* legal action there, computeQValueFromValues returns evaluate(p') + discount * v, where
\* p' is the position after the action and v the min (Black agent) / max (White agent)
\* of the stored values of the positions after each opponent reply, 0 if there is no
\* reply; and the board is back at the position the call was given
C13_QValueIsSuccessorEvaluationPlusDiscountedReply ==
    \A f \in vi.ag.states :
       LET b == [BoardFromFen(f) EXCEPT !.turn = BLACK]
       IN \A action \in LegalSet(b) :
             LET p1 == push(b, action)
                 opp == [p1 EXCEPT !.turn = IF vi.ag.color = BLACK THEN WHITE ELSE BLACK]
                 stored == {ValueIterationAgent_getValue(vi.ag, fen(push(opp, m)))
                            : m \in LegalSet(opp)}
                 v == IF stored = {} THEN 0
                      ELSE IF vi.ag.color = BLACK THEN SetMin(stored) ELSE SetMax(stored)
                 q == ValueIterationAgent_computeQValueFromValues(vi.ag, b, action)
             IN /\ q.val = QScale * evaluation_evaluate(p1, 0) + (vi.ag.discount * v) \div Tenths
                /\ q.board = b


\* C16: a CSV row with a non-integer rating or a missing field is skipped by puzzle
\* loading and by dataset sampling alike: the call does not raise, and it returns what
\* it returns on the file without those rows
C16_MalformedRowsAreSkipped ==
    LET WellFormed(row) == row.Rating.kind = "int" /\ row.Themes.kind # "none"
        rows == SelectSeq(pz.file, WellFormed)
    IN /\ pz.op = "load" =>
             /\ pz.raised = ""
             /\ pz.puzzles = PuzzleLoader_load(rows, 1, <<>>, pz.args[1], pz.args[2], pz.args[3],
                                               pz.args[4], pz.args[5]).puzzles
       /\ pz.op = "sample" =>
             /\ pz.raised = ""
             /\ pz.out \in {o.selected : o \in create_puzzle_subset(rows, pz.args[1], pz.args[2],
                                                                    pz.args[3], pz.args[4],
                                                                    pz.args[5])}

\* C17: load returns, in file order, the first `limit` rows that pass every filter
\* (rating >= min_rating, rating <= max_rating, all requested themes present, the custom
\* predicate), all of them if there are fewer; never more than a supplied limit, never a
\* rating outside a supplied bound
C17_LoadReturnsFirstLimitMatches ==
    (pz.op = "load" /\ pz.raised = "") =>
        LET min_rating == pz.args[1]
            max_rating == pz.args[2]
            themes == pz.args[3]
            limit == pz.args[4]
            custom_filter == pz.args[5]
            Passes(row) ==
                /\ min_rating # <<>> => row.Rating.val >= min_rating[1]
                /\ max_rating # <<>> => row.Rating.val <= max_rating[1]
                /\ themes \subseteq row.Themes.val
                /\ custom_filter # <<>> => row.PuzzleId \in custom_filter[1]
            matching == SelectSeq(pz.file, Passes)
            n == IF limit # <<>> /\ limit[1] < Len(matching) THEN limit[1] ELSE Len(matching)
        IN /\ Len(pz.puzzles) = n
           /\ \A k \in 1..n : /\ pz.puzzles[k].puzzle_id = matching[k].PuzzleId
                              /\ pz.puzzles[k].rating = matching[k].Rating.val
                              /\ pz.puzzles[k].themes = matching[k].Themes.val


\* C18: in stratified and in non-stratified mode, every row the sampler wrote has its
\* rating in [rating_min, rating_max), shares a theme with the theme filter if one was
\* given, and no PuzzleId is written twice
C18_SampledRowsWithinBoundsAndDistinct ==
    (pz.op = "sample" /\ pz.raised = "") =>
        LET rating_min == pz.args[2]
            rating_max == pz.args[3]
            themes_filter == pz.args[4]
        IN /\ \A k \in DOMAIN pz.out :
                 /\ rating_min <= pz.out[k].Rating.val
                 /\ pz.out[k].Rating.val < rating_max
                 /\ themes_filter # {} => pz.out[k].Themes.val \cap themes_filter # {}
           /\ \A a, b \in DOMAIN pz.out : a # b => pz.out[a].PuzzleId # pz.out[b].PuzzleId


\* C14: evaluate over N puzzles returns a report with exactly N results; a puzzle on
\* which choose_move raised is recorded as unsolved with zero time and zero nodes, and
\* the puzzles after it are still evaluated
C14_RaisingPuzzleIsRecordedUnsolved ==
    pz.op = "evaluate" =>
        /\ pz.raised = ""
        /\ Len(pz.report.results) = Len(pz.puzzles)
        /\ \A k \in DOMAIN pz.puzzles :
              pz.args[1][k] = "raise" =>
                 /\ ~pz.report.results[k].solved
                 /\ pz.report.results[k].time_taken = 0
                 /\ pz.report.results[k].nodes_searched = 0

\* C15: a report over N results of which K are solved has solved = K, total_puzzles = N
\* and solve_rate = 100 * K / N (0 when N = 0); by_rating_range and by_theme return a
\* new report whose aggregates satisfy the same equations over its own results
C15_ReportAggregatesAndFilters ==
    LET Aggregated(report) ==
            LET N == Len(report.results)
                K == Cardinality({k \in DOMAIN report.results : report.results[k].solved})
            IN /\ report.total_puzzles = N
               /\ report.solved = K
               /\ report.solve_rate[1] * (IF N = 0 THEN 1 ELSE N)
                     = (IF N = 0 THEN 0 ELSE 100 * K) * report.solve_rate[2]
    IN /\ pz.pc = "report" => Aggregated(pz.report)
       /\ pz.op \in {"by_rating_range", "by_theme"} =>
             /\ pz.raised = ""
             /\ Aggregated(pz.out)


\* C19: in a tournament over distinct agent keys the ratings sum to 1200 times the
\* number of agents after every game, because every update_elo keeps the sum of the
\* two ratings it changes
C19_RatingSumIsConserved ==
    LET RECURSIVE total(_)
        total(n) == IF n = 0 THEN 0 ELSE elo.ratings[elo.agent_keys[n]] + total(n - 1)
    IN elo.pc \in {"play", "done"} =>
          total(Len(elo.agent_keys)) = Len(elo.agent_keys) * 1200 * 4096


\* C20: in play_game_with_gui and watch_agents_play every change of the window's board
\* is made by the UI thread; the worker thread, which runs choose_move, never pushes
\* or pops a move on it
C20_OnlyUiThreadMutatesBoard == [][board' # board => gui'.thread = "ui"]_vars

\* C21: in both GUI loops at most one move chosen by an agent is scheduled and not
\* yet applied, and the worker does not ask an agent for a move while a chosen move
\* still waits to be applied.
C21_OneAgentMovePending ==
    LET pending == {i \in DOMAIN gui.after : gui.after[i].kind \in {"make_ai_move", "make_move"}}
        applying == gui.ui.pc = "push" /\ gui.ui.caller \in {"make_ai_move", "make_move"}
    IN /\ Cardinality(pending) + (IF applying THEN 1 ELSE 0) <= 1
       /\ gui.worker.pc \in {"call", "think"} => pending = {} /\ ~applying

\* C22: every move pushed by the UI thread, typed or handed in by an agent, is a legal
\* move of the board at the moment of the push; an input that does not parse or is not
\* legal leaves the board, the stored notation and the last-move marker as they were.
C22_AppliedMovesAreLegal ==
    [][/\ gui.ui.pc = "push" /\ gui'.ui.pc = "idle" /\ gui.ui.move # NoMove
          => gui.ui.move \in LegalSet(board)
       /\ gui'.dialog # "" /\ gui'.events # gui.events
          => /\ board' = board
             /\ gui'.move_history_sans = gui.move_history_sans
             /\ gui'.last_move = gui.last_move]_vars

\* C23: in a game without agents, after any moves, Undo presses and confirmed Resets,
\* the stored notation list and the displayed history each have one entry per ply on
\* the board; in particular both are empty after a Reset.
C23_HistoryMatchesPlies ==
    gui.white_agent = "None" /\ gui.black_agent = "None" /\ gui.ui.pc = "idle"
    => /\ Len(gui.move_history_sans) = Len(board.stack)
       /\ Len(gui.history_text.lines) = Len(board.stack)
       /\ \A i \in DOMAIN gui.history_text.lines : Len(gui.history_text.lines[i]) = 1

\* C24: since the last reset_stats (or the construction), moves_made is the number of
\* select_move calls that returned a move and total_time the sum of their elapsed
\* times; a call that returns no move leaves moves_made, nodes_searched and total_time
\* as they were; reset_stats sets the three to zero.
C24_StatsCountReturnedMoves ==
    /\ agent.moves_made = last.returned
    /\ agent.total_time = last.elapsed
    /\ last.op = "select_move" /\ last.move = NoMove
       => /\ agent.moves_made = last.before.moves_made
          /\ agent.nodes_searched = last.before.nodes_searched
          /\ agent.total_time = last.before.total_time
    /\ last.op = "reset_stats"
       => agent.moves_made = 0 /\ agent.nodes_searched = 0 /\ agent.total_time = 0

\* a call on a finished game returned no move after an earlier call returned one
C24_Witness ==
    /\ last.op = "select_move" /\ last.move = NoMove
    /\ last.returned >= 1 /\ last.elapsed >= 1

\* C25: a search agent's nodes_searched, after the choose_move calls since its last
\* reset, is the sum of the node counts of those searches, each search counting from
\* zero: at least one node per root move, and none when there is no move.
C25_NodesAreSumOfSearches ==
    agent.key \in Algorithms
    => /\ agent.nodes_searched = last.counts
       /\ last.op = "select_move"
          => /\ last.count >= Len(legal_moves(last.board))
             /\ last.count = 0 <=> legal_moves(last.board) = <<>>
             /\ agent.nodes_searched = last.before.nodes_searched + last.count

\* the second search of an agent, both with nodes
C25_Witness ==
    /\ agent.key \in Algorithms /\ last.op = "select_move"
    /\ last.count > 0 /\ last.counts > last.count

C27_RepeatedNodeReturnsAtOnce ==
    \A alg \in Algorithms :
        res[alg].ran /\ ~res[alg].raised
        => /\ ~res[alg].repeated
           /\ res[alg].path = {PathKey(res[alg].before)}

\* C28: in each of the three algorithms every optimizing node, in the main recursion
\* and in quiescence, maximizes when White is to move on its board and minimizes when
\* Black is, whichever side is to move at the root.
C28_WhiteMaximizesBlackMinimizes ==
    \A alg \in Algorithms : res[alg].ran /\ ~res[alg].raised => res[alg].sense

\* C29: for the same evaluator, position and depth (at least 1, with a move to play),
\* the root score of Expectimax is at least that of Minimax when White is to move at
\* the root and at most that of Minimax when Black is.
C29_ExpectimaxNoWorseThanMinimax ==
    LET e == res["expectimax"]
        m == res["minimax"]
    IN /\ e.ran /\ m.ran /\ ~e.raised /\ ~m.raised
       /\ depth >= 1 /\ legal_moves(board) # <<>>
       => IF board.turn = WHITE THEN e.score >= ExScale * m.score
          ELSE e.score <= ExScale * m.score

\* C30: after every game of the round-robin, whatever play_game returned, each key's
\* wins, losses and draws add up to the number of games the key has played, and the
\* wins of all keys together equal the losses of all keys together.
C30_RecordsAccountForEveryGame ==
    elo.result # "none"
    => LET keys == DOMAIN elo.records
           Total(field) ==
               LET RECURSIVE sum(_)
                   sum(S) == IF S = {} THEN 0
                             ELSE LET key == CHOOSE x \in S : TRUE
                                  IN elo.records[key][field] + sum(S \ {key})
               IN sum(keys)
       IN /\ \A key \in keys :
                elo.records[key].wins + elo.records[key].losses + elo.records[key].draws
                    = elo.played[key]
          /\ Total("wins") = Total("losses")

\* a game that ended by timeout or error after a game that was won
C30_Witness ==
    /\ elo.result \in {"timeout", "error"}
    /\ \E key \in DOMAIN elo.records : elo.records[key].wins >= 1
    /\ \E key \in DOMAIN elo.records : elo.records[key].draws >= 1

============================================================================
